---- MODULE Spec2Model ----
(***************************************************************************)
(* Emergency-vehicle simulation and dispatch engine.                       *)
(*                                                                         *)
(* Three threads share the fleet: the simulation loop ("sim",              *)
(* VehicleSimulator.simulation_loop), the monitoring loop ("monitor",      *)
(* VehicleController._monitor_loop) and the request thread ("api", the     *)
(* event loop that runs the async handlers of api.py one at a time).       *)
(*                                                                         *)
(* Granularity: one step per source statement that reads or writes a       *)
(* shared vehicle attribute; the loops of _update_route_geometry and of    *)
(* _capture_status take one step per iteration; get_state takes one step   *)
(* per attribute it reads; "route_index += 1" is a read and a write.       *)
(* A program counter is named after the file and the source line:          *)
(* sNNN = vehicle_simulation.py, cNNN = vehicle_controller.py,             *)
(* aNNN = api.py.                                                          *)
(*                                                                         *)
(* Units: positions are integers in a length unit in which a vehicle       *)
(* driving at v km/h covers v units in one tick of 100 simulated seconds   *)
(* (1 unit = 100000/3600 m), so that max_distance of update_movement is    *)
(* current_speed * simulated_time_step / 100. Wall-clock values            *)
(* (last_updated, the snapshot timestamp) are not modelled.                *)
(***************************************************************************)
EXTENDS Integers, Sequences, FiniteSets, TLC

\* ------------------------------------------------------------------ bounds
\* The workload of a run: how many dispatch requests arrive, how many ticks
\* the simulation loop gets to start and how often the monitor wakes up.
MaxRequests == 2
MaxTicks == 9
MaxMonitorCaptures == 1

\* ------------------------------------------------------- program constants
FireTruckMaxSpeed == 80
ReturnSpeedPercent == 70
HandlingDuration == 600
RealTimeStep == 1
SimulationSpeed == 100
HistoryCap == 1440
FireTrucksPerStation == 1
AmbulancesPerFacility == 4
AmbulanceMaxSpeed == 90
PoliceCarsPerStation == 5
PoliceMaxSpeed == 120
PatrolSpeed == 40
PatrolMaxNodes == 10

\* ---------------------------------------------------------------- workloads
\* The run's other inputs: the facility roster, simulation_speed and the
\* generator behind random.choice. FireFleet is the roster of fire stations at
\* the speed set in VehicleSimulator.__init__. watch tells whether the run
\* keeps, for every record get_state is building, what the vehicle has been
\* since the first read.
FireFleet == [facilities |-> "fire", simulation_speed |-> SimulationSpeed,
              seed |-> "first", resets |-> 0, calls |-> 0, watch |-> FALSE]

\* The generator behind random.choice: it picks the first option every time,
\* or the last one every time.
Seeds == {"first", "last"}

Workloads ==
  { [requests |-> MaxRequests, ticks |-> 1, captures |-> 0] @@ FireFleet,
    [requests |-> 1, ticks |-> MaxTicks, captures |-> 0] @@ FireFleet,
    [requests |-> 1, ticks |-> 1, captures |-> MaxMonitorCaptures] @@ FireFleet }

NoPoint == <<>>
NoTime == -1
NoNode == "None"

\* ------------------------------------------------------------ road network
\* The graph read by create_vehicle_simulator: the line A-B-C built from one
\* bidirectional road, and a one-way road D -> C.
NodeOrder == <<"A", "B", "C", "D">>

Nodes == {NodeOrder[k] : k \in 1..Len(NodeOrder)}

NodePos ==
  [n \in Nodes |->
     CASE n = "A" -> <<0, 0>>
       [] n = "B" -> <<100, 0>>
       [] n = "C" -> <<200, 0>>
       [] n = "D" -> <<200, 100>>]

Edges == {<<"A", "B">>, <<"B", "A">>, <<"B", "C">>, <<"C", "B">>, <<"D", "C">>}

TravelTime ==
  [e \in Edges |->
     CASE e \in {<<"A", "B">>, <<"B", "A">>} -> 3
       [] e \in {<<"B", "C">>, <<"C", "B">>} -> 4
       [] OTHER -> 5]

\* The facility roster read by create_vehicle_simulator (facility id = row
\* index, starting at 0).
Facilities ==
  << [type |-> "Fire Station", location |-> <<0, 30>>],
     [type |-> "Fire Station", location |-> <<200, -30>>] >>

\* A roster of one police station, at the junction A.
PoliceFacilities == << [type |-> "Police Station", location |-> <<0, 0>>] >>

\* A roster of one fire station beside D, the junction that the one-way road
\* leaves and no road enters.
OneWayFacilities == << [type |-> "Fire Station", location |-> <<200, 130>>] >>

Roster(name) ==
  CASE name = "police" -> PoliceFacilities
    [] name = "oneway" -> OneWayFacilities
    [] OTHER -> Facilities

\* Request inputs of POST /api/dispatch-vehicle (destination already
\* projected by transformer_to_proj).
VehicleTypes == {"fire_truck", "ambulance", ""}

Destinations == {<<100, 0>>, <<200, 10>>, <<200, 90>>}

\* ---------------------------------------------------------------- helpers
DistSq(p, q) == (p[1] - q[1]) * (p[1] - q[1]) + (p[2] - q[2]) * (p[2] - q[2])

\* Exact square root; the geometry is chosen so that every distance that
\* update_movement divides by is integral.
Sqrt(n) == CHOOSE r \in 0..n : r * r <= n /\ (r + 1) * (r + 1) > n

Busy == {"responding", "handling"}

\* find_nearest_node: linear scan in node order, strict "<" keeps the first
\* minimum; None when the graph has no node.
RECURSIVE NearestFrom(_, _, _)
NearestFrom(k, point, best) ==
  IF k > Len(NodeOrder) THEN best
  ELSE LET n == NodeOrder[k] IN
       IF best = NoNode \/ DistSq(point, NodePos[n]) < DistSq(point, NodePos[best])
       THEN NearestFrom(k + 1, point, n)
       ELSE NearestFrom(k + 1, point, best)

find_nearest_node(point) == NearestFrom(1, point, NoNode)

\* nx.shortest_path(graph, source, target, weight="travel_time"): a path of
\* least total travel_time; the empty set stands for NetworkXNoPath.
RECURSIVE SimplePaths(_, _, _)
SimplePaths(u, w, visited) ==
  IF u = w THEN {<<w>>}
  ELSE UNION {{<<u>> \o p : p \in SimplePaths(x, w, visited \cup {u})} :
                x \in {y \in Nodes \ (visited \cup {u}) : <<u, y>> \in Edges}}

RECURSIVE PathTime(_)
PathTime(p) ==
  IF Len(p) < 2 THEN 0
  ELSE TravelTime[<<p[1], p[2]>>] + PathTime(Tail(p))

shortest_path(source, target) ==
  LET cands == SimplePaths(source, target, {})
  IN {p \in cands : \A q \in cands : PathTime(p) <= PathTime(q)}

\* graph.neighbors(n): the successors of n.
Neighbors(n) == SelectSeq(NodeOrder, LAMBDA m : <<n, m>> \in Edges)

choice(seed, options) ==
  IF seed = "first" THEN options[1] ELSE options[Len(options)]

\* generate_patrol_route: up to max_nodes random steps from the node nearest
\* the start location, ended early at a node without a successor.
RECURSIVE PatrolFrom(_, _, _)
PatrolFrom(current_node, seed, left) ==
  IF left = 0 \/ Neighbors(current_node) = <<>> THEN <<>>
  ELSE LET n == choice(seed, Neighbors(current_node))
       IN <<n>> \o PatrolFrom(n, seed, left - 1)

generate_patrol_route(start_location, seed) ==
  PatrolFrom(find_nearest_node(start_location), seed, PatrolMaxNodes)

\* Variant: every vehicle of a kind gets the number 1.
NewUnnumberedVehicle(prefix, n, vtype, fid, loc, maxSpeed) ==
  [vehicle_id |-> <<prefix, 1>>, vehicle_type |-> vtype, facility_id |-> fid,
   facility_location |-> loc, max_speed |-> maxSpeed,
   status |-> "idle", current_location |-> loc, destination |-> NoPoint,
   route_nodes |-> <<>>, route_geometry |-> <<>>, route_index |-> 0,
   current_speed |-> 0, handling_start_time |-> NoTime]

\* EmergencyVehicle.__init__ and its subclasses.
NewVehicle(prefix, n, vtype, fid, loc, maxSpeed) ==
  [vehicle_id |-> <<prefix, n>>, vehicle_type |-> vtype, facility_id |-> fid,
   facility_location |-> loc, max_speed |-> maxSpeed,
   status |-> "idle", current_location |-> loc, destination |-> NoPoint,
   route_nodes |-> <<>>, route_geometry |-> <<>>, route_index |-> 0,
   current_speed |-> 0, handling_start_time |-> NoTime]

NewPoliceCar(n, fid, loc) ==
  NewVehicle("POL", n, "police_car", fid, loc, PoliceMaxSpeed)
    @@ [patrol_nodes |-> <<>>, patrol_geometry |-> <<>>, patrol_index |-> 0,
        patrol_speed |-> PatrolSpeed]

\* isinstance(vehicle, PoliceCar)
IsPoliceCar(v) == v.vehicle_type = "police_car"

\* start_patrol, lines 169-176, with _update_patrol_geometry: only an idle car
\* starts; patrol_index is left as it is.
start_patrol(v, patrol_nodes) ==
  IF v.status = "idle"
  THEN [v EXCEPT !.status = "patrolling", !.patrol_nodes = patrol_nodes,
                 !.patrol_geometry = [k \in 1..Len(patrol_nodes) |->
                                        NodePos[patrol_nodes[k]]],
                 !.current_speed = v.patrol_speed]
  ELSE v

\* initialize_vehicles over a roster: one fire truck per fire station, four
\* ambulances per ambulance facility, five police cars per police station,
\* ids numbered over the whole roster, every vehicle at its home facility;
\* a police car is sent on patrol as soon as it is created (patrol = TRUE
\* gives the finished fleet, patrol = FALSE the cars as constructed).
RECURSIVE InitFrom(_, _, _, _, _, _)
InitFrom(roster, seed, patrol, f, vehicle_id, acc) ==
  IF f > Len(roster) THEN acc
  ELSE LET loc == roster[f].location IN
    CASE roster[f].type = "Fire Station" ->
           InitFrom(roster, seed, patrol, f + 1, vehicle_id + FireTrucksPerStation,
                    acc \o [k \in 1..FireTrucksPerStation |->
                              NewVehicle("FT", vehicle_id + k - 1, "fire_truck",
                                         f - 1, loc, FireTruckMaxSpeed)])
      [] roster[f].type = "Ambulance Station" ->
           InitFrom(roster, seed, patrol, f + 1, vehicle_id + AmbulancesPerFacility,
                    acc \o [k \in 1..AmbulancesPerFacility |->
                              NewVehicle("AMB", vehicle_id + k - 1, "ambulance",
                                         f - 1, loc, AmbulanceMaxSpeed)])
      [] roster[f].type = "Police Station" ->
           InitFrom(roster, seed, patrol, f + 1, vehicle_id + PoliceCarsPerStation,
                    acc \o [k \in 1..PoliceCarsPerStation |->
                              IF patrol
                              THEN start_patrol(NewPoliceCar(vehicle_id + k - 1, f - 1, loc),
                                                generate_patrol_route(loc, seed))
                              ELSE NewPoliceCar(vehicle_id + k - 1, f - 1, loc)])
      [] OTHER -> InitFrom(roster, seed, patrol, f + 1, vehicle_id, acc)

initialize_vehicles(roster, seed) == InitFrom(roster, seed, TRUE, 1, 1, <<>>)


\* ------------------------------------------------------------------ state
VARIABLES
  vehicles,            \* VehicleSimulator.vehicles: the fleet, in list order
  simulated_time,      \* VehicleSimulator.simulated_time
  simulation_running,  \* VehicleSimulator.simulation_running
  monitoring,          \* VehicleController.monitoring
  lock,                \* VehicleController.lock: its holder, or "none"
  status_history,      \* VehicleController.status_history
  pc,                  \* position of each thread
  sim,                 \* locals of simulation_loop and of the update it runs
  api,                 \* locals of the request being handled
  cap,                 \* locals of _capture_status, per calling thread
  geo,                 \* locals of _update_route_geometry, per calling thread
  env,                 \* the workload of this run (never changes)
  ctl,                 \* the life of the two loops: ticks begun, loop threads
                       \* started, stops requested, and the list object a
                       \* reset has replaced while a reader still holds it
  calc                 \* the call in progress of a function that runs outside
                       \* the server's threads: its position, arguments, locals

vars == <<vehicles, simulated_time, simulation_running, monitoring, lock,
          status_history, pc, sim, api, cap, geo, env, ctl, calc>>

Threads == {"sim", "monitor", "api"}

CaptureThreads == {"monitor", "api"}

RouteThreads == {"sim", "api"}

NoResult == [code |-> 0, detail |-> "", vehicle_id |-> <<>>,
             route_length |-> 0, estimated_time |-> 0]

Error(code, detail) == [NoResult EXCEPT !.code = code, !.detail = detail]

\* Variant: the step is the real time between two ticks.
real_time_step == RealTimeStep

\* vehicle_simulation.py 334
simulated_time_step == RealTimeStep * env.simulation_speed

\* Locals of a thread outside the call that owns them.
\* status_writes counts the status assignments the loop has made to the
\* vehicle it is updating.
NoSimLocals == [vi |-> 0, target_pos |-> NoPoint, max_distance |-> 0,
                route_index |-> 0, route_back |-> <<>>, error |-> "",
                patrol_nodes |-> <<>>, status_writes |-> 0]

NoRequest == [vehicle_type |-> "", dest |-> NoPoint, available |-> <<>>,
              closest |-> 0, vehicle_id |-> <<>>, vehicle |-> 0, route |-> <<>>,
              direct |-> FALSE, nreq |-> 0, result |-> NoResult,
              listing |-> <<>>]

NoGeo == [v |-> 0, nodes |-> <<>>, k |-> 0]

\* After start-up one simulation loop and one monitoring loop have been
\* started, no tick has begun and nobody has asked either loop to stop.
\* seen records, per position in the fleet, the statuses the vehicle has had;
\* noop the calls that found the monitor already started or already stopped.
NoCtl == [ticks |-> 0,
          loops |-> [t \in {"sim", "monitor"} |-> 1],
          stopped |-> [t \in {"sim", "monitor"} |-> FALSE],
          resets |-> 0,
          calls |-> 0,
          noop |-> {},
          old |-> <<>>,
          seen |-> {}]

\* Every vehicle is constructed idle; a police car is patrolling when
\* initialize_vehicles returns.
SeenOf(vs) == {<<k, "idle">> : k \in 1..Len(vs)}
                \cup {<<k, vs[k].status>> : k \in 1..Len(vs)}

Saw(k, status) == [ctl EXCEPT !.seen = @ \cup {<<k, status>>}]

\* What get_state reports of a vehicle besides its identity.
Reported(v) == [status |-> v.status, location |-> v.current_location,
                speed |-> v.current_speed, route_nodes |-> v.route_nodes]

\* Thread t is inside get_state, between its first and its last read.
Reading(t) == pc[t] \in {"s52", "s53", "s55", "s57"}

\* h agrees with the entries that get_state has evaluated so far.
Agree(h, st) ==
  /\ "status" \in DOMAIN st => h.status = st.status
  /\ "x" \in DOMAIN st => h.location[1] = st.x
  /\ "location" \in DOMAIN st => h.location = st.location
  /\ "speed" \in DOMAIN st => h.speed = st.speed

\* cap[t].held collects what the vehicle that thread t is reading has been,
\* from the first read of get_state on, as far as it agrees with the entries
\* evaluated so far: c is the capture state and vs the fleet after a step of
\* another thread.
Observe(c, vs, old) ==
  [t \in DOMAIN c |->
     IF /\ env.watch
        /\ Reading(t) /\ ~(t = "monitor" /\ old # <<>>) /\ c[t].i <= Len(vs)
        /\ Agree(Reported(vs[c[t].i]), c[t].state)
     THEN [c[t] EXCEPT !.held = @ \cup {Reported(vs[c[t].i])}]
     ELSE c[t]]

\* The request ends with response r.
Respond(r) == api' = [NoRequest EXCEPT !.nreq = api.nreq, !.result = r]

\* The state once the application has started: the simulator and the
\* controller are constructed, initialize_vehicles has filled the fleet, and
\* start_simulation and start_monitoring have set their flags and started
\* the two threads. In Init the history file was empty.
Constructed ==
  /\ vehicles = initialize_vehicles(Roster(env.facilities), env.seed)
  /\ simulated_time = 0
  /\ simulation_running = TRUE
  /\ monitoring = TRUE
  /\ lock = "none"
  /\ pc = [t \in Threads |-> CASE t = "sim" -> "s330"
                               [] t = "monitor" -> "c92"
                               [] OTHER -> "idle"]
  /\ sim = NoSimLocals
  /\ api = NoRequest
  /\ cap = [t \in CaptureThreads |->
              [i |-> 0, state |-> <<>>, vehicle_states |-> <<>>, n |-> 0,
               held |-> {}]]
  /\ geo = [t \in RouteThreads |-> NoGeo]
  /\ ctl = [NoCtl EXCEPT !.seen = SeenOf(vehicles)]

\* No function outside the server's threads is being called.
NoCalc == [pc |-> "none"]

Started ==
  /\ Constructed
  /\ calc = NoCalc

Init ==
  /\ env \in Workloads
  /\ status_history = <<>>
  /\ Started

Goto(t, l) == pc' = [pc EXCEPT ![t] = l]

\* ------------------------------------------------- request thread: api.py
\* get_available_vehicles(vehicle_type=t): the indices, in fleet order, of
\* the vehicles kept by the type filter (applied only when vehicle_type is
\* truthy) and by the status filter.
RECURSIVE AvailableFrom(_, _, _)
AvailableFrom(k, vs, vehicle_type) ==
  IF k > Len(vs) THEN <<>>
  ELSE (IF /\ (vehicle_type = "" \/ vs[k].vehicle_type = vehicle_type)
           /\ vs[k].status \notin Busy
        THEN <<k>> ELSE <<>>) \o AvailableFrom(k + 1, vs, vehicle_type)

get_available_vehicles(vs, vehicle_type) == AvailableFrom(1, vs, vehicle_type)

\* min(available_vehicles, key=distance): the first element with the least
\* key (a later element replaces the best only when strictly smaller).
RECURSIVE MinFrom(_, _, _, _, _)
MinFrom(k, cands, vs, dest, best) ==
  IF k > Len(cands) THEN best
  ELSE IF DistSq(vs[cands[k]].current_location, dest)
            < DistSq(vs[best].current_location, dest)
       THEN MinFrom(k + 1, cands, vs, dest, cands[k])
       ELSE MinFrom(k + 1, cands, vs, dest, best)

\* Variant: a later candidate at the same distance replaces the best.
RECURSIVE MinFromLast(_, _, _, _, _)
MinFromLast(k, cands, vs, dest, best) ==
  IF k > Len(cands) THEN best
  ELSE IF DistSq(vs[cands[k]].current_location, dest)
            <= DistSq(vs[best].current_location, dest)
       THEN MinFromLast(k + 1, cands, vs, dest, cands[k])
       ELSE MinFromLast(k + 1, cands, vs, dest, best)

closest_vehicle_last(cands, vs, dest) == MinFromLast(2, cands, vs, dest, cands[1])

closest_vehicle(cands, vs, dest) == MinFrom(2, cands, vs, dest, cands[1])

\* get_vehicle_by_id: the first vehicle with that id, 0 for None.
get_vehicle_by_id(vs, vehicle_id) ==
  IF \E k \in 1..Len(vs) : vs[k].vehicle_id = vehicle_id
  THEN CHOOSE k \in 1..Len(vs) :
         /\ vs[k].vehicle_id = vehicle_id
         /\ \A j \in 1..(k - 1) : vs[j].vehicle_id # vehicle_id
  ELSE 0

\* POST /api/dispatch-vehicle arrives.
Request(vehicle_type, dest) ==
  /\ pc["api"] = "idle"
  /\ api.nreq < env.requests
  /\ api' = [NoRequest EXCEPT !.vehicle_type = vehicle_type, !.dest = dest,
                              !.nreq = api.nreq + 1]
  /\ Goto("api", "a261")
  /\ UNCHANGED <<vehicles, simulated_time, simulation_running, monitoring,
                 lock, status_history, sim, cap, geo, env, calc, ctl>>

\* api.py 261-266: the candidates; 404 when there is none.
ApiAvailable ==
  /\ pc["api"] = "a261"
  /\ LET av == get_available_vehicles(vehicles, api.vehicle_type) IN
       IF av = <<>>
       THEN /\ Respond(Error(404, "no_available"))
            /\ Goto("api", "idle")
       ELSE /\ api' = [api EXCEPT !.available = av]
            /\ Goto("api", "a269")
  /\ UNCHANGED <<vehicles, simulated_time, simulation_running, monitoring,
                 lock, status_history, sim, cap, geo, env, calc, ctl>>

\* api.py 269-275: the closest candidate.
ApiClosest ==
  /\ pc["api"] = "a269"
  /\ api' = [api EXCEPT !.closest = closest_vehicle(api.available, vehicles, api.dest)]
  /\ Goto("api", "a278")
  /\ UNCHANGED <<vehicles, simulated_time, simulation_running, monitoring,
                 lock, status_history, sim, cap, geo, env, calc, ctl>>

\* Variant: the no-path error is caught by the general handler (500).
ApiRoute_generic_error ==
  /\ pc["api"] = "a278"
  /\ LET origin_node == find_nearest_node(vehicles[api.closest].current_location)
         nearest_node == find_nearest_node(api.dest)
         routes == shortest_path(origin_node, nearest_node)
     IN IF routes = {}
        THEN /\ Respond(Error(500, "no_path"))
             /\ Goto("api", "idle")
        ELSE /\ \E route \in routes :
                  api' = [api EXCEPT !.route = route,
                                     !.vehicle_id = vehicles[api.closest].vehicle_id]
             /\ Goto("api", "c75")
  /\ UNCHANGED <<vehicles, simulated_time, simulation_running, monitoring,
                 lock, status_history, sim, cap, geo, env, calc, ctl>>

\* api.py 278-297: nearest nodes and route; NetworkXNoPath becomes the 400
\* response; otherwise controller.dispatch_vehicle is called.
ApiRoute ==
  /\ pc["api"] = "a278"
  /\ LET origin_node == find_nearest_node(vehicles[api.closest].current_location)
         nearest_node == find_nearest_node(api.dest)
         routes == shortest_path(origin_node, nearest_node)
     IN IF routes = {}
        THEN /\ Respond(Error(400, "no_path"))
             /\ Goto("api", "idle")
        ELSE /\ \E route \in routes :
                  api' = [api EXCEPT !.route = route,
                                     !.vehicle_id = vehicles[api.closest].vehicle_id]
             /\ Goto("api", "c75")
  /\ UNCHANGED <<vehicles, simulated_time, simulation_running, monitoring,
                 lock, status_history, sim, cap, geo, env, calc, ctl>>

\* vehicle_controller.py 75-80: unknown or busy vehicle raises ValueError,
\* which api.py 311-312 turns into the 500 response.
\* Variant: only a handling vehicle is refused.
dispatch_check_handling_only(vs, vehicle_id) ==
  LET v == get_vehicle_by_id(vs, vehicle_id) IN
    IF v = 0 THEN "not_found"
    ELSE IF vs[v].status = "handling" THEN "not_available"
    ELSE "ok"

dispatch_check(vs, vehicle_id) ==
  LET v == get_vehicle_by_id(vs, vehicle_id) IN
    IF v = 0 THEN "not_found"
    ELSE IF vs[v].status \in Busy THEN "not_available"
    ELSE "ok"

CtlCheck ==
  /\ pc["api"] = "c75"
  /\ LET r == dispatch_check(vehicles, api.vehicle_id) IN
       IF r # "ok"
       THEN /\ Respond(Error(500, r))
            /\ Goto("api", "idle")
       ELSE /\ api' = [api EXCEPT !.vehicle = get_vehicle_by_id(vehicles, api.vehicle_id)]
            /\ Goto("api", "s67")
  /\ UNCHANGED <<vehicles, simulated_time, simulation_running, monitoring,
                 lock, status_history, sim, cap, geo, env, calc, ctl>>


\* Variant: the assignment goes to the first vehicle of the list.
SetFirstVehicle(v, f, val) ==
  vehicles' = [vehicles EXCEPT ![1] = [g \in DOMAIN @ |-> IF g = f THEN val ELSE @[g]]]

\* vehicle_simulation.py 67-71: start_response, one attribute per step.
SetVehicle(v, f, val) ==
  vehicles' = [vehicles EXCEPT ![v] = [g \in DOMAIN @ |-> IF g = f THEN val ELSE @[g]]]

StartResponse ==
  /\ pc["api"] \in {"s67", "s68", "s69", "s70", "s71"}
  /\ LET v == api.vehicle IN
       CASE pc["api"] = "s67" -> SetVehicle(v, "status", "responding") /\ Goto("api", "s68")
         [] pc["api"] = "s68" -> SetVehicle(v, "destination", api.dest) /\ Goto("api", "s69")
         [] pc["api"] = "s69" -> SetVehicle(v, "route_nodes", api.route) /\ Goto("api", "s70")
         [] pc["api"] = "s70" -> SetVehicle(v, "route_index", 0) /\ Goto("api", "s71")
         [] pc["api"] = "s71" -> SetVehicle(v, "current_speed", vehicles[v].max_speed)
                                 /\ Goto("api", "s85")
  /\ geo' = [geo EXCEPT !["api"] = IF pc["api"] = "s71" THEN [NoGeo EXCEPT !.v = api.vehicle]
                                    ELSE @]
  /\ ctl' = IF pc["api"] = "s67" THEN Saw(api.vehicle, "responding") ELSE ctl
  /\ cap' = Observe(cap, vehicles', ctl.old)
  /\ UNCHANGED <<simulated_time, simulation_running, monitoring, lock,
                 status_history, sim, api, env, calc>>

\* vehicle_simulation.py 85-88: _update_route_geometry, called by
\* start_response (request thread) and by return_to_facility (simulation
\* thread). Line 85 replaces the list, line 86 takes the route_nodes list the
\* vehicle holds at that moment, line 88 appends to the list the vehicle
\* holds at the moment of the append.
AfterGeometry(t) == IF t = "api" THEN "c101" ELSE "next"

UpdateRouteGeometry(t) ==
  /\ pc[t] \in {"s85", "s86", "s88"}
  /\ LET v == geo[t].v IN
       CASE pc[t] = "s85" ->
              /\ SetVehicle(v, "route_geometry", <<>>)
              /\ Goto(t, "s86")
              /\ UNCHANGED geo
         [] pc[t] = "s86" ->
              /\ geo' = [geo EXCEPT ![t] = IF vehicles[v].route_nodes = <<>> THEN NoGeo
                                            ELSE [v |-> v, nodes |-> vehicles[v].route_nodes,
                                                  k |-> 1]]
              /\ Goto(t, IF vehicles[v].route_nodes = <<>> THEN AfterGeometry(t) ELSE "s88")
              /\ UNCHANGED vehicles
         [] pc[t] = "s88" ->
              /\ SetVehicle(v, "route_geometry",
                            Append(vehicles[v].route_geometry, NodePos[geo[t].nodes[geo[t].k]]))
              /\ geo' = [geo EXCEPT ![t] = IF geo[t].k < Len(geo[t].nodes)
                                            THEN [@ EXCEPT !.k = @ + 1] ELSE NoGeo]
              /\ Goto(t, IF geo[t].k < Len(geo[t].nodes) THEN "s88" ELSE AfterGeometry(t))
  /\ UNCHANGED <<simulated_time, simulation_running, monitoring, lock,
                 status_history, sim, api, cap, env, calc, ctl>>

\* ------------------------------ _capture_status: vehicle_controller.py 99-122
\* get_state (vehicle_simulation.py 43-58) evaluates the dictionary entry by
\* entry: status, location x, location y, speed, route_nodes.
CaptureAcquire(t) ==
  /\ pc[t] = "c101"
  /\ lock = "none"
  /\ lock' = t
  /\ cap' = [cap EXCEPT ![t].i = 1, ![t].state = <<>>, ![t].vehicle_states = <<>>]
  /\ Goto(t, IF Len(vehicles) = 0 THEN "c115" ELSE "s50")
  /\ UNCHANGED <<vehicles, simulated_time, simulation_running, monitoring,
                 status_history, sim, api, geo, env, calc, ctl>>

\* The list object the capture of thread t iterates over: the fleet, or the
\* list that reset_simulation has replaced since the iteration began.
Fleet(t) == IF t = "monitor" /\ ctl.old # <<>> THEN ctl.old ELSE vehicles

GetState(t) ==
  /\ pc[t] \in {"s50", "s52", "s53", "s55", "s57"}
  /\ LET v == Fleet(t)[cap[t].i]
         st == cap[t].state
     IN CASE pc[t] = "s50" ->
               /\ cap' = [cap EXCEPT ![t].state =
                            [vehicle_id |-> v.vehicle_id, vehicle_type |-> v.vehicle_type,
                             facility_id |-> v.facility_id, status |-> v.status],
                                     ![t].held = IF env.watch THEN {Reported(v)} ELSE {}]
               /\ Goto(t, "s52")
          [] pc[t] = "s52" ->
               /\ cap' = [cap EXCEPT ![t].state =
                            [vehicle_id |-> st.vehicle_id, vehicle_type |-> st.vehicle_type,
                             facility_id |-> st.facility_id, status |-> st.status,
                             x |-> v.current_location[1]],
                                     ![t].held = {h \in @ : h.location[1] = v.current_location[1]}]
               /\ Goto(t, "s53")
          [] pc[t] = "s53" ->
               /\ cap' = [cap EXCEPT ![t].state =
                            [vehicle_id |-> st.vehicle_id, vehicle_type |-> st.vehicle_type,
                             facility_id |-> st.facility_id, status |-> st.status,
                             location |-> <<st.x, v.current_location[2]>>],
                                     ![t].held = {h \in @ : h.location =
                                                     <<st.x, v.current_location[2]>>}]
               /\ Goto(t, "s55")
          [] pc[t] = "s55" ->
               /\ cap' = [cap EXCEPT ![t].state =
                            [vehicle_id |-> st.vehicle_id, vehicle_type |-> st.vehicle_type,
                             facility_id |-> st.facility_id, status |-> st.status,
                             location |-> st.location, speed |-> v.current_speed],
                                     ![t].held = {h \in @ : h.speed = v.current_speed}]
               /\ Goto(t, "s57")
          [] pc[t] = "s57" ->
               /\ cap' = [cap EXCEPT
                            ![t].vehicle_states = Append(@,
                               [vehicle_id |-> st.vehicle_id, vehicle_type |-> st.vehicle_type,
                                facility_id |-> st.facility_id, status |-> st.status,
                                location |-> st.location, speed |-> st.speed,
                                route_nodes |-> v.route_nodes]),
                            ![t].state = <<>>,
                            ![t].held = {},
                            ![t].i = @ + 1]
               /\ Goto(t, IF cap[t].i < Len(Fleet(t)) THEN "s50" ELSE "c115")
  /\ ctl' = IF t = "monitor" /\ pc[t] = "s57" /\ cap[t].i >= Len(Fleet(t))
            THEN [ctl EXCEPT !.old = <<>>] ELSE ctl
  /\ UNCHANGED <<vehicles, simulated_time, simulation_running, monitoring, lock,
                 status_history, sim, api, geo, env, calc>>

\* vehicle_controller.py 111-119: append the entry, keep the last 1440.
LastN(h, n) == IF Len(h) > n THEN SubSeq(h, Len(h) - n + 1, Len(h)) ELSE h

\* Variant: the slice keeps the first 1440 entries ([:1440]).
append_entry_first(h, entry) ==
  IF Len(h) + 1 > HistoryCap THEN SubSeq(Append(h, entry), 1, HistoryCap)
  ELSE Append(h, entry)

append_entry(h, entry) == LastN(Append(h, entry), HistoryCap)

CaptureAppend(t) ==
  /\ pc[t] = "c115"
  /\ status_history' = append_entry(status_history, [vehicles |-> cap[t].vehicle_states])
  /\ Goto(t, "c122")
  /\ UNCHANGED <<vehicles, simulated_time, simulation_running, monitoring, lock,
                 sim, api, cap, geo, env, calc, ctl>>

\* Variant: the lock is released by hand after the write (acquire ... release
\* without try/finally), so a failed write leaves it held.
CaptureSaveHeld(t, ok) ==
  /\ pc[t] = "c122"
  /\ lock' = IF ok THEN "none" ELSE lock
  /\ cap' = [cap EXCEPT ![t].vehicle_states = <<>>, ![t].i = 0]
  /\ IF t = "monitor"
     THEN /\ Goto(t, IF ok THEN "c92" ELSE "crashed")
          /\ api' = api
     ELSE IF ok
          THEN IF api.direct
               THEN Goto(t, "idle") /\ Respond([NoResult EXCEPT !.code = 200])
               ELSE Goto(t, "a299") /\ api' = api
          ELSE /\ Goto(t, "idle")
               /\ Respond(Error(500, "save_failed"))
  /\ UNCHANGED <<vehicles, simulated_time, simulation_running, monitoring,
                 status_history, sim, geo, env, calc, ctl>>

\* vehicle_controller.py 122 (41-44): the file write succeeds or raises; the
\* with-block releases the lock either way. An exception leaves the monitor
\* loop (nothing catches it) and fails the request (api.py 311-312).
CaptureSave(t, ok) ==
  /\ pc[t] = "c122"
  /\ lock' = "none"
  /\ cap' = [cap EXCEPT ![t].vehicle_states = <<>>, ![t].i = 0]
  /\ IF t = "monitor"
     THEN /\ Goto(t, IF ok THEN "c92" ELSE "crashed")
          /\ api' = api
     ELSE IF ok
          THEN IF api.direct
               THEN Goto(t, "idle") /\ Respond([NoResult EXCEPT !.code = 200])
               ELSE Goto(t, "a299") /\ api' = api
          ELSE /\ Goto(t, "idle")
               /\ Respond(Error(500, "save_failed"))
  /\ UNCHANGED <<vehicles, simulated_time, simulation_running, monitoring,
                 status_history, sim, geo, env, calc, ctl>>

\* vehicle_controller.py 92-97: the monitoring loop.
MonitorLoop ==
  /\ pc["monitor"] = "c92"
  /\ IF monitoring
     THEN /\ cap["monitor"].n < env.captures
          /\ cap' = [cap EXCEPT !["monitor"].n = @ + 1]
          /\ Goto("monitor", "c101")
     ELSE /\ cap' = cap
          /\ Goto("monitor", "exit")
  /\ UNCHANGED <<vehicles, simulated_time, simulation_running, monitoring, lock,
                 status_history, sim, api, geo, env, calc, ctl>>

\* api.py 299-307: the response of a successful dispatch.
RECURSIVE estimated_time(_, _)
estimated_time(route, i) ==
  IF i > Len(route) - 1 THEN 0
  ELSE TravelTime[<<route[i], route[i + 1]>>] + estimated_time(route, i + 1)

\* Variant: the route length counts the edges, the time misses the last edge.
dispatch_response_edges(closest, route) ==
  [code |-> 200, detail |-> "dispatched", vehicle_id |-> closest.vehicle_id,
   route_length |-> Len(route) - 1,
   estimated_time |-> estimated_time(SubSeq(route, 1, Len(route) - 1), 1)]

dispatch_response(closest, route) ==
  [code |-> 200, detail |-> "dispatched", vehicle_id |-> closest.vehicle_id,
   route_length |-> Len(route), estimated_time |-> estimated_time(route, 1)]

ApiRespond ==
  /\ pc["api"] = "a299"
  /\ Respond(dispatch_response(vehicles[api.closest], api.route))
  /\ Goto("api", "idle")
  /\ UNCHANGED <<vehicles, simulated_time, simulation_running, monitoring, lock,
                 status_history, sim, cap, geo, env, calc, ctl>>

\* ------------------------------- simulation thread: vehicle_simulation.py
SimUnchanged ==
  /\ cap' = Observe(cap, vehicles', ctl.old)
  /\ UNCHANGED <<simulation_running, monitoring, lock, status_history, api>>

\* vehicle_simulation.py 330-334: the loop test and the start of a tick.
SimLoop ==
  /\ pc["sim"] = "s330"
  /\ IF simulation_running
     THEN /\ ctl.ticks < env.ticks
          /\ sim' = [sim EXCEPT !.vi = 1]
          /\ ctl' = [ctl EXCEPT !.ticks = @ + 1]
          /\ Goto("sim", IF Len(vehicles) = 0 THEN "s353" ELSE "s338")
     ELSE /\ sim' = sim
          /\ ctl' = ctl
          /\ Goto("sim", "exit")
  /\ UNCHANGED <<vehicles, simulated_time, geo, env, calc>>
  /\ SimUnchanged

\* vehicle_simulation.py 337: the for loop moves to the next vehicle, or to
\* line 353 after the last one.
SimNextVehicle ==
  /\ pc["sim"] = "next"
  /\ sim' = [NoSimLocals EXCEPT !.vi = sim.vi + 1]
  /\ Goto("sim", IF sim.vi < Len(vehicles) THEN "s338" ELSE "s353")
  /\ UNCHANGED <<vehicles, simulated_time, geo, env, calc, ctl>>
  /\ SimUnchanged

\* Variant: the chain has no branch for a police car on patrol.
update_rule_no_patrol(v) ==
  IF v.status \in {"responding", "returning"} THEN "s92"
  ELSE IF v.status = "handling" THEN "s343"
  ELSE IF v.status = "idle" /\ IsPoliceCar(v) THEN "s349"
  ELSE "next"

\* vehicle_simulation.py 338-350: the rule chosen by the vehicle's status.
update_rule(v) ==
  IF v.status \in {"responding", "returning"} THEN "s92"
  ELSE IF IsPoliceCar(v) /\ v.status = "patrolling" THEN "s185"
  ELSE IF v.status = "handling" THEN "s343"
  ELSE IF v.status = "idle" /\ IsPoliceCar(v) THEN "s349"
  ELSE "next"

SimBranch ==
  /\ pc["sim"] = "s338"
  /\ Goto("sim", update_rule(vehicles[sim.vi]))
  /\ UNCHANGED <<vehicles, simulated_time, sim, geo, env, calc, ctl>>
  /\ SimUnchanged

\* update_movement, lines 92-122. max_distance in model units.
max_distance(speed, step) == (speed * step) \div 100

\* Variant: the two coordinates of the new location are exchanged.
move_toward_swapped(loc, target, maxd) ==
  LET dx == target[1] - loc[1]
      dy == target[2] - loc[2]
      distance == Sqrt(dx * dx + dy * dy)
  IN <<loc[2] + (dy * maxd) \div distance, loc[1] + (dx * maxd) \div distance>>

move_toward(loc, target, maxd) ==
  LET dx == target[1] - loc[1]
      dy == target[2] - loc[2]
      distance == Sqrt(dx * dx + dy * dy)
  IN <<loc[1] + (dx * maxd) \div distance, loc[2] + (dy * maxd) \div distance>>

UpdateMovement ==
  /\ pc["sim"] \in {"s92", "s95", "s100", "s103", "s108", "s110", "s121"}
  /\ LET v == vehicles[sim.vi] IN
       CASE pc["sim"] = "s92" ->
              /\ Goto("sim", IF v.status \notin {"responding", "returning"}
                                \/ v.route_nodes = <<>>
                             THEN "next" ELSE "s95")
              /\ UNCHANGED <<vehicles, sim>>
         [] pc["sim"] = "s95" ->
              \* line 96 calls arrive_at_destination() without its argument
              IF v.route_index >= Len(v.route_geometry)
              THEN /\ sim' = [sim EXCEPT !.error = "TypeError"]
                   /\ Goto("sim", "crashed")
                   /\ UNCHANGED vehicles
              ELSE Goto("sim", "s100") /\ UNCHANGED <<vehicles, sim>>
         [] pc["sim"] = "s100" ->
              IF v.route_index >= Len(v.route_geometry)
              THEN /\ sim' = [sim EXCEPT !.error = "IndexError"]
                   /\ Goto("sim", "crashed")
                   /\ UNCHANGED vehicles
              ELSE /\ sim' = [sim EXCEPT !.target_pos = v.route_geometry[v.route_index + 1]]
                   /\ Goto("sim", "s103")
                   /\ UNCHANGED vehicles
         [] pc["sim"] = "s103" ->
              /\ sim' = [sim EXCEPT !.max_distance =
                                      max_distance(v.current_speed, simulated_time_step)]
              /\ Goto("sim", "s108")
              /\ UNCHANGED vehicles
         [] pc["sim"] = "s108" ->
              IF DistSq(v.current_location, sim.target_pos)
                   <= sim.max_distance * sim.max_distance
              THEN /\ SetVehicle(sim.vi, "current_location", sim.target_pos)
                   /\ sim' = [sim EXCEPT !.route_index = v.route_index]
                   /\ Goto("sim", "s110")
              ELSE /\ SetVehicle(sim.vi, "current_location",
                                 move_toward(v.current_location, sim.target_pos,
                                             sim.max_distance))
                   /\ Goto("sim", "s121")
                   /\ UNCHANGED sim
         [] pc["sim"] = "s110" ->
              /\ SetVehicle(sim.vi, "route_index", sim.route_index + 1)
              /\ Goto("sim", "s121")
              /\ UNCHANGED sim
         [] pc["sim"] = "s121" ->
              /\ Goto("sim", IF v.route_index >= Len(v.route_geometry)
                             THEN "s125" ELSE "next")
              /\ UNCHANGED <<vehicles, sim>>
  /\ UNCHANGED <<simulated_time, geo, env, calc, ctl>>
  /\ SimUnchanged

\* arrive_at_destination, lines 125-134, and arrive_at_facility, 138-143.
Arrive ==
  /\ pc["sim"] \in {"s125", "s133", "s126", "s129", "s131", "s132",
                    "s138", "s139", "s140", "s141", "s142", "s143"}
  /\ LET i == sim.vi
         v == vehicles[sim.vi]
     IN CASE pc["sim"] = "s125" ->
               /\ Goto("sim", IF v.status = "responding" THEN "s126" ELSE "s133")
               /\ UNCHANGED vehicles
          [] pc["sim"] = "s133" ->
               /\ Goto("sim", IF v.status = "returning" THEN "s138" ELSE "next")
               /\ UNCHANGED vehicles
          [] pc["sim"] = "s126" ->
               /\ vehicles' = [vehicles EXCEPT ![i].status = "handling",
                                               ![i].handling_start_time = simulated_time]
               /\ Goto("sim", "s129")
          [] pc["sim"] = "s129" -> SetVehicle(i, "current_speed", 0) /\ Goto("sim", "s131")
          [] pc["sim"] = "s131" -> SetVehicle(i, "route_nodes", <<>>) /\ Goto("sim", "s132")
          [] pc["sim"] = "s132" -> SetVehicle(i, "route_geometry", <<>>) /\ Goto("sim", "next")
          [] pc["sim"] = "s138" -> SetVehicle(i, "status", "idle") /\ Goto("sim", "s139")
          [] pc["sim"] = "s139" -> SetVehicle(i, "current_location", v.facility_location)
                                   /\ Goto("sim", "s140")
          [] pc["sim"] = "s140" -> SetVehicle(i, "destination", NoPoint) /\ Goto("sim", "s141")
          [] pc["sim"] = "s141" -> SetVehicle(i, "route_nodes", <<>>) /\ Goto("sim", "s142")
          [] pc["sim"] = "s142" -> SetVehicle(i, "route_geometry", <<>>) /\ Goto("sim", "s143")
          [] pc["sim"] = "s143" -> SetVehicle(i, "current_speed", 0) /\ Goto("sim", "next")
  /\ sim' = IF pc["sim"] \in {"s126", "s138"}
            THEN [sim EXCEPT !.status_writes = @ + 1] ELSE sim
  /\ ctl' = CASE pc["sim"] = "s126" -> Saw(sim.vi, "handling")
              [] pc["sim"] = "s138" -> Saw(sim.vi, "idle")
              [] OTHER -> ctl
  /\ UNCHANGED <<simulated_time, geo, env, calc>>
  /\ SimUnchanged

\* vehicle_simulation.py 343-347: the end of handling and the route home;
\* NetworkXNoPath is not caught and ends the simulation thread.
handling_over(v, now) == now >= v.handling_start_time + HandlingDuration

SimHandling ==
  /\ pc["sim"] = "s343"
  /\ LET v == vehicles[sim.vi]
         routes == shortest_path(find_nearest_node(v.current_location),
                                 find_nearest_node(v.facility_location))
     IN IF ~handling_over(v, simulated_time)
        THEN Goto("sim", "next") /\ sim' = sim
        ELSE IF routes = {}
        THEN /\ sim' = [sim EXCEPT !.error = "NetworkXNoPath"]
             /\ Goto("sim", "crashed")
        ELSE /\ \E r \in routes : sim' = [sim EXCEPT !.route_back = r]
             /\ Goto("sim", "s76")
  /\ UNCHANGED <<vehicles, simulated_time, geo, env, calc, ctl>>
  /\ SimUnchanged

\* return_to_facility, lines 76-80.
return_speed(max_speed) == (max_speed * ReturnSpeedPercent) \div 100

ReturnToFacility ==
  /\ pc["sim"] \in {"s76", "s77", "s78", "s79", "s80"}
  /\ LET i == sim.vi
         v == vehicles[sim.vi]
     IN CASE pc["sim"] = "s76" -> SetVehicle(i, "status", "returning") /\ Goto("sim", "s77")
          [] pc["sim"] = "s77" -> SetVehicle(i, "destination", v.facility_location)
                                  /\ Goto("sim", "s78")
          [] pc["sim"] = "s78" -> SetVehicle(i, "route_nodes", sim.route_back)
                                  /\ Goto("sim", "s79")
          [] pc["sim"] = "s79" -> SetVehicle(i, "route_index", 0) /\ Goto("sim", "s80")
          [] pc["sim"] = "s80" -> SetVehicle(i, "current_speed", return_speed(v.max_speed))
                                  /\ Goto("sim", "s85")
  /\ geo' = [geo EXCEPT !["sim"] = IF pc["sim"] = "s80" THEN [NoGeo EXCEPT !.v = sim.vi]
                                    ELSE @]
  /\ sim' = IF pc["sim"] = "s76" THEN [sim EXCEPT !.status_writes = @ + 1] ELSE sim
  /\ ctl' = IF pc["sim"] = "s76" THEN Saw(sim.vi, "returning") ELSE ctl
  /\ UNCHANGED <<simulated_time, env, calc>>
  /\ SimUnchanged

\* update_patrol, lines 185-203: the guard, the distance the car may cover,
\* and the move towards patrol_geometry[patrol_index].
UpdatePatrol ==
  /\ pc["sim"] \in {"s185", "s187", "s195"}
  /\ LET v == vehicles[sim.vi] IN
       CASE pc["sim"] = "s185" ->
              /\ Goto("sim", IF v.status = "patrolling" /\ v.patrol_geometry # <<>>
                             THEN "s187" ELSE "next")
              /\ UNCHANGED <<vehicles, sim>>
         [] pc["sim"] = "s187" ->
              /\ sim' = [sim EXCEPT !.max_distance =
                                      max_distance(v.current_speed, simulated_time_step),
                                    !.target_pos = v.patrol_geometry[v.patrol_index + 1]]
              /\ Goto("sim", "s195")
              /\ UNCHANGED vehicles
         [] pc["sim"] = "s195" ->
              /\ vehicles' = [vehicles EXCEPT ![sim.vi] =
                     IF DistSq(v.current_location, sim.target_pos)
                          <= sim.max_distance * sim.max_distance
                     THEN [v EXCEPT !.current_location = sim.target_pos,
                                    !.patrol_index = (v.patrol_index + 1)
                                                       % Len(v.patrol_geometry)]
                     ELSE [v EXCEPT !.current_location =
                                      move_toward(v.current_location, sim.target_pos,
                                                  sim.max_distance)]]
              /\ Goto("sim", "next")
              /\ UNCHANGED sim
  /\ UNCHANGED <<simulated_time, geo, env, calc, ctl>>
  /\ SimUnchanged

\* vehicle_simulation.py 349-350 with start_patrol, 169-176: an idle police
\* car gets a new patrol route; the status test, the status assignment (with
\* the car's own patrol attributes) and the speed assignment are three steps.
StartPatrol ==
  /\ pc["sim"] \in {"s349", "s170", "s171", "s175"}
  /\ LET v == vehicles[sim.vi] IN
       CASE pc["sim"] = "s349" ->
              /\ sim' = [sim EXCEPT !.patrol_nodes =
                                      generate_patrol_route(v.facility_location, env.seed)]
              /\ Goto("sim", "s170")
              /\ UNCHANGED <<vehicles, ctl>>
         [] pc["sim"] = "s170" ->
              /\ Goto("sim", IF v.status = "idle" THEN "s171" ELSE "next")
              /\ UNCHANGED <<vehicles, sim, ctl>>
         [] pc["sim"] = "s171" ->
              /\ vehicles' = [vehicles EXCEPT ![sim.vi] =
                     [start_patrol([v EXCEPT !.status = "idle"], sim.patrol_nodes)
                        EXCEPT !.current_speed = v.current_speed]]
              /\ sim' = [sim EXCEPT !.status_writes = @ + 1]
              /\ ctl' = Saw(sim.vi, "patrolling")
              /\ Goto("sim", "s175")
         [] pc["sim"] = "s175" ->
              /\ SetVehicle(sim.vi, "current_speed", v.patrol_speed)
              /\ Goto("sim", "next")
              /\ UNCHANGED <<sim, ctl>>
  /\ UNCHANGED <<simulated_time, geo, env, calc>>
  /\ SimUnchanged

\* The simulation loop over a fleet with police cars.
PatrolNext == UpdatePatrol \/ StartPatrol

\* vehicle_simulation.py 352-355 (293-297): the periodic save_vehicle_states.
\* It is skipped when less than 5 seconds have passed, or writes the file
\* (both leave the state as it is: ok), or the write raises; nothing catches
\* the exception, which ends the simulation thread.
SimSave(ok) ==
  /\ pc["sim"] = "s353"
  /\ sim' = IF ok THEN sim ELSE [sim EXCEPT !.error = "OSError"]
  /\ Goto("sim", IF ok THEN "s358" ELSE "crashed")
  /\ UNCHANGED <<vehicles, simulated_time, geo, env, calc, ctl>>
  /\ SimUnchanged

\* vehicle_simulation.py 357-361: advance the simulated time, sleep.
SimAdvance ==
  /\ pc["sim"] = "s358"
  /\ simulated_time' = simulated_time + simulated_time_step
  /\ Goto("sim", "s330")
  /\ UNCHANGED <<vehicles, sim, geo, env, calc, ctl>>
  /\ SimUnchanged

SimNext ==
  \/ SimLoop
  \/ SimNextVehicle
  \/ SimBranch
  \/ UpdateMovement
  \/ Arrive
  \/ SimHandling
  \/ ReturnToFacility
  \/ UpdateRouteGeometry("sim")
  \/ \E ok \in BOOLEAN : SimSave(ok)
  \/ SimAdvance

\* A caller of the controller other than the request handler:
\* VehicleController.dispatch_vehicle(vehicle_id, destination, route) with any
\* vehicle id and a route computed as the handler computes it.
UnknownVehicleId == <<"FT", 0>>

DirectDispatch(vehicle_id, dest) ==
  /\ pc["api"] = "idle"
  /\ api.nreq < env.requests
  /\ LET v == get_vehicle_by_id(vehicles, vehicle_id)
         origin == IF v = 0 THEN find_nearest_node(dest)
                   ELSE find_nearest_node(vehicles[v].current_location)
     IN \E route \in shortest_path(origin, find_nearest_node(dest)) :
          api' = [NoRequest EXCEPT !.vehicle_id = vehicle_id, !.dest = dest,
                                   !.route = route, !.direct = TRUE,
                                   !.nreq = api.nreq + 1]
  /\ Goto("api", "c75")
  /\ UNCHANGED <<vehicles, simulated_time, simulation_running, monitoring,
                 lock, status_history, sim, cap, geo, env, calc, ctl>>

\* The steps of a dispatch request once it has arrived.
ApiSteps ==
  \/ ApiAvailable
  \/ ApiClosest
  \/ ApiRoute
  \/ CtlCheck
  \/ StartResponse
  \/ UpdateRouteGeometry("api")
  \/ CaptureAcquire("api")
  \/ GetState("api")
  \/ CaptureAppend("api")
  \/ \E ok \in BOOLEAN : CaptureSave("api", ok)
  \/ ApiRespond

ApiNext ==
  \/ \E vt \in VehicleTypes, d \in Destinations : Request(vt, d)
  \/ ApiSteps

MonitorNext ==
  \/ MonitorLoop
  \/ CaptureAcquire("monitor")
  \/ GetState("monitor")
  \/ CaptureAppend("monitor")
  \/ \E ok \in BOOLEAN : CaptureSave("monitor", ok)

Next == SimNext \/ ApiNext \/ MonitorNext

Spec == Init /\ [][Next]_vars

\* The program with a second caller of the controller.
NextCtl ==
  \/ Next
  \/ \E id \in {vehicles[k].vehicle_id : k \in 1..Len(vehicles)} \cup {UnknownVehicleId},
        d \in Destinations : DirectDispatch(id, d)

SpecCtl == Init /\ [][NextCtl]_vars

\* -------------------------------------------------- GET /api/vehicles
\* The optional query parameters of get_all_vehicles: NoFilter and NoFacility
\* stand for None. "if x:" keeps the filter for a truthy x only: not for
\* None, not for the empty string, not for 0.
NoFilter == "None"
NoFacility == -1

TruthyStr(s) == s \notin {NoFilter, ""}

TruthyInt(n) == n \notin {NoFacility, 0}

\* api.py 200-219: the three filters in turn, then get_state of every vehicle
\* that is left (the entries of the state that the filters are about).
get_all_vehicles(vs, vehicle_type, facility_id, status) ==
  LET by_type == IF TruthyStr(vehicle_type)
                 THEN SelectSeq(vs, LAMBDA v : v.vehicle_type = vehicle_type)
                 ELSE vs
      by_facility == IF TruthyInt(facility_id)
                     THEN SelectSeq(by_type, LAMBDA v : v.facility_id = facility_id)
                     ELSE by_type
      by_status == IF TruthyStr(status)
                   THEN SelectSeq(by_facility, LAMBDA v : v.status = status)
                   ELSE by_facility
  IN [k \in 1..Len(by_status) |->
        [vehicle_id |-> by_status[k].vehicle_id,
         vehicle_type |-> by_status[k].vehicle_type,
         facility_id |-> by_status[k].facility_id,
         status |-> by_status[k].status]]

\* The handler: a coroutine without an await, so no other request runs
\* inside it; listing keeps the request and its answer.
ListVehicles(vehicle_type, facility_id, status) ==
  /\ pc["api"] = "idle"
  /\ api.nreq < env.requests
  /\ api' = [NoRequest EXCEPT
               !.nreq = api.nreq + 1,
               !.listing = <<[vehicle_type |-> vehicle_type,
                              facility_id |-> facility_id,
                              status |-> status,
                              fleet |-> get_all_vehicles(vehicles, NoFilter,
                                                         NoFacility, NoFilter),
                              vehicles |-> get_all_vehicles(vehicles, vehicle_type,
                                                            facility_id, status)]>>]
  /\ UNCHANGED <<vehicles, simulated_time, simulation_running, monitoring,
                 lock, status_history, pc, sim, cap, geo, env, calc, ctl>>

\* Query parameters of the requests: every type, every facility id of the
\* roster and one beyond it, every status, each also left out.
ListTypes == {NoFilter, "fire_truck", "police_car"}

ListFacilities == {NoFacility, 0, 1, 2}

ListStatuses == {NoFilter, "idle", "responding", "patrolling"}

MaxListRequests == 2

ListWorkloads ==
  { [requests |-> MaxListRequests, ticks |-> 0, captures |-> 0] @@ FireFleet,
    [FireFleet EXCEPT !.facilities = "police"]
      @@ [requests |-> MaxListRequests, ticks |-> 0, captures |-> 0] }

InitList ==
  /\ env \in ListWorkloads
  /\ status_history = <<>>
  /\ Started

NextList ==
  \/ ApiNext
  \/ \E ty \in ListTypes, f \in ListFacilities, st \in ListStatuses :
        ListVehicles(ty, f, st)

SpecList == InitList /\ [][NextList]_vars

\* ------------------------------------------------------------ traffic.py
\* A float is modelled by the rational <<n, d>> in lowest terms, d > 0; the
\* quotient of two floats is rounded to nearest, which keeps its order with
\* respect to 1.0, the only comparison compute_delay_factor makes.
RECURSIVE Gcd(_, _)
Gcd(a, b) == IF b = 0 THEN a ELSE Gcd(b, a % b)

Abs(n) == IF n < 0 THEN -n ELSE n

\* n / d for d > 0
Ratio(n, d) == LET g == Gcd(Abs(n), d) IN <<n \div g, d \div g>>

One == <<1, 1>>

Less(a, b) == a[1] * b[2] < b[1] * a[2]

\* dict.get(key, default)
Get(d, key, default) == IF key \in DOMAIN d THEN d[key] ELSE default

\* Inputs of compute_delay_factor: a traffic result with or without
\* "currentFlow", which has or lacks "speed" and "freeFlow"; a default_max
\* that is the default, 1.0, or below 1.0.
MaxFlowSpeed == 3

FlowSpeeds == -1..MaxFlowSpeed

Flows == UNION {[K -> FlowSpeeds] : K \in SUBSET {"speed", "freeFlow"}}

TrafficResults == {<<>>} \cup {[currentFlow |-> f] : f \in Flows}

DefaultMax == <<10, 1>>

DefaultMaxValues == {DefaultMax, One, <<1, 2>>}

DelayCall(traffic_json, default_max) ==
  [pc |-> "t27", traffic_json |-> traffic_json, default_max |-> default_max,
   current_speed |-> 0, free_flow |-> 0, factor |-> One, returned |-> FALSE]

ServerUnchanged ==
  UNCHANGED <<vehicles, simulated_time, simulation_running, monitoring, lock,
              status_history, pc, sim, api, cap, geo, env, ctl>>

\* traffic.py 27-29
DelayRead ==
  /\ calc.pc = "t27"
  /\ LET current_flow == Get(calc.traffic_json, "currentFlow", <<>>) IN
       calc' = [calc EXCEPT !.pc = "t31",
                            !.current_speed = Get(current_flow, "speed", 0),
                            !.free_flow = Get(current_flow, "freeFlow", 0)]
  /\ ServerUnchanged

\* traffic.py 31-34
DelayFactor ==
  /\ calc.pc = "t31"
  /\ calc' = [calc EXCEPT
                !.pc = "t37",
                !.factor = IF calc.current_speed > 0
                           THEN Ratio(calc.free_flow, calc.current_speed)
                           ELSE calc.default_max]
  /\ ServerUnchanged

\* The function without the test of lines 37-38.
unbounded_factor(factor) == factor

\* traffic.py 37-38
bounded_factor(factor) == IF Less(factor, One) THEN One ELSE factor

\* traffic.py 37-40
DelayReturn ==
  /\ calc.pc = "t37"
  /\ calc' = [calc EXCEPT !.pc = "none",
                          !.factor = bounded_factor(@),
                          !.returned = TRUE]
  /\ ServerUnchanged

TrafficWorkloads == {[requests |-> 0, ticks |-> 0, captures |-> 0] @@ FireFleet}

InitTraffic ==
  /\ env \in TrafficWorkloads
  /\ status_history = <<>>
  /\ Constructed
  /\ calc \in {DelayCall(j, m) : j \in TrafficResults, m \in DefaultMaxValues}

NextTraffic == DelayRead \/ DelayFactor \/ DelayReturn

SpecTraffic == InitTraffic /\ [][NextTraffic]_vars

\* ---------------------------------------------------- data_processing.py
\* create_road_network_graph. Coordinates are in millimetres of the projected
\* system, so that round(x, 2) and the tolerance of one metre both act.
MillimetresPerMetre == 1000
MetresPerKilometre == 1000
MinutesPerHour == 60
JunctionTolerance == 1 * MillimetresPerMetre
RoundingStep == MillimetresPerMetre \div 100
DefaultSpeed == 40
SampledParts == 10

\* round(x, 2) of a coordinate x >= 0 that is not half-way between two
\* multiples of a centimetre.
Round2(x) == ((x + RoundingStep \div 2) \div RoundingStep) * RoundingStep

rounded_key(p) == <<Round2(p[1]), Round2(p[2])>>

\* (dx**2 + dy**2)**0.5; the inputs keep it integral.
SegmentLength(p, q) ==
  IF p[2] = q[2] THEN Abs(q[1] - p[1])
  ELSE IF p[1] = q[1] THEN Abs(q[2] - p[2])
  ELSE Sqrt(DistSq(p, q))

\* The test of line 187 without its second half.
speed_kph_if_truthy(speed_limit) == IF speed_limit # 0 THEN speed_limit ELSE DefaultSpeed

\* data_processing.py 187
speed_kph(speed_limit) == IF speed_limit # 0 /\ speed_limit > 0 THEN speed_limit ELSE DefaultSpeed

\* data_processing.py 188: minutes, as a rational <<n, d>> with d > 0.
SignedRatio(n, d) == IF d < 0 THEN Ratio(-n, -d) ELSE Ratio(n, d)

travel_time(segment_length, speed) ==
  SignedRatio(segment_length * MinutesPerHour,
              MillimetresPerMetre * MetresPerKilometre * speed)

JunctionNode(junction) == <<"J", junction.node_id>>

\* junction_tree.query(point, k=1): the rows of the junctions nearest to the
\* point (more than one when they are equally far).
Nearest(junctions, p) ==
  {j \in 1..Len(junctions) :
     \A o \in 1..Len(junctions) :
       DistSq(junctions[j].point, p) <= DistSq(junctions[o].point, p)}

WithinTolerance(p, q) == DistSq(p, q) <= JunctionTolerance * JunctionTolerance

\* Inputs: junction rows with their node_id (unique, as NID is) and point;
\* roads with their coordinates, speed limit and traffic direction.
Junction(node_id, point) == [node_id |-> node_id, point |-> point]

JunctionLists ==
  { <<Junction(1, <<0, 0>>)>>,
    <<Junction(1, <<0, 0>>), Junction(2, <<600, 0>>)>>,
    <<Junction(1, <<0, 0>>), Junction(2, <<3000, 0>>)>> }

RoadCoords ==
  { <<>>,
    << <<0, 0>>, <<3000, 0>> >>,
    << <<3004, 0>>, <<4, 0>>, <<996, 0>> >>,
    << <<1004, 0>>, <<3000, 0>> >>,
    << <<996, 0>>, <<5000, 0>>, <<3000, 0>> >> }

SpeedLimits == {-10, 0, 50}

Directions == {"Both directions", "Same direction"}

Roads ==
  {[coords |-> c, speed_limit |-> s, traffic_direction |-> d] :
     c \in RoadCoords, s \in SpeedLimits, d \in Directions}

MaxRoads == 2

RoadLists == UNION {[1..n -> Roads] : n \in 1..MaxRoads}

\* The call at line 89: an empty DiGraph. nodes and edges are G's two
\* dictionaries; resolved and forward keep, for each coordinate and each
\* segment handled, what it was turned into.
BuildCall(roads, junctions) ==
  [pc |-> "d94", roads |-> roads, junctions |-> junctions,
   nodes |-> <<>>, edges |-> <<>>, junction_points |-> <<>>,
   node_counter |-> 0, j |-> 1, road_id |-> 1, i |-> 0, road_nodes |-> <<>>,
   added |-> 0, resolved |-> {}, forward |-> {}]

\* data_processing.py 94-99, one junction
AddJunction ==
  /\ calc.pc = "d94"
  /\ IF calc.j > Len(calc.junctions)
     THEN calc' = [calc EXCEPT !.pc = "d119"]
     ELSE LET junction == calc.junctions[calc.j]
              node_id == JunctionNode(junction)
          IN calc' = [calc EXCEPT
                        !.nodes = (node_id :> [x |-> junction.point[1],
                                                y |-> junction.point[2],
                                                type |-> "junction"]) @@ @,
                        !.junction_points = (rounded_key(junction.point) :> node_id) @@ @,
                        !.added = @ + 1,
                        !.j = @ + 1]
  /\ ServerUnchanged

\* data_processing.py 119-128 and 212-219: the next road, or the end
NextRoad ==
  /\ calc.pc = "d119"
  /\ IF calc.road_id > Len(calc.roads)
     THEN calc' = [calc EXCEPT !.pc = "none"]
     ELSE IF Len(calc.roads[calc.road_id].coords) < 2
     THEN calc' = [calc EXCEPT !.road_id = @ + 1]
     ELSE calc' = [calc EXCEPT !.pc = "d130", !.i = 0, !.road_nodes = <<>>]
  /\ ServerUnchanged

Max(a, b) == IF a >= b THEN a ELSE b

\* data_processing.py 130-159, one coordinate
ResolveCoordinate ==
  /\ calc.pc = "d130"
  /\ LET coords == calc.roads[calc.road_id].coords IN
     IF calc.i >= Len(coords)
     THEN calc' = [calc EXCEPT !.pc = "d162", !.i = 0]
     ELSE
       LET point == coords[calc.i + 1]
           is_endpoint == calc.i = 0 \/ calc.i = Len(coords) - 1
           key == rounded_key(point)
           Keep(node_id, c) ==
             [c EXCEPT !.road_nodes = Append(@, <<node_id, point>>),
                       !.resolved = @ \cup {<<point, node_id>>},
                       !.i = @ + 1]
       IN
         IF key \in DOMAIN calc.junction_points
         THEN calc' = Keep(calc.junction_points[key], calc)
         ELSE \E junction_idx \in Nearest(calc.junctions, point) :
           IF WithinTolerance(calc.junctions[junction_idx].point, point)
           THEN calc' = Keep(JunctionNode(calc.junctions[junction_idx]), calc)
           ELSE IF is_endpoint
                   \/ calc.i % Max(1, Len(coords) \div SampledParts) = 0
           THEN LET node_id == <<"R", calc.node_counter>> IN
                calc' = Keep(node_id,
                  [calc EXCEPT
                     !.node_counter = @ + 1,
                     !.nodes = (node_id :> [x |-> point[1], y |-> point[2],
                                             type |-> "road_vertex"]) @@ @,
                     !.added = @ + 1,
                     !.junction_points = (key :> node_id) @@ @])
           ELSE calc' = [calc EXCEPT !.i = @ + 1]
  /\ ServerUnchanged

\* G.add_edge(u, v, **attributes): the edge there was is replaced
add_edge(edges, u, v, attributes) == (<<u, v>> :> attributes) @@ edges

\* The test of line 208 never met.
one_way(road) == FALSE

\* data_processing.py 208
bidirectional(road) == road.traffic_direction = "Both directions"

\* data_processing.py 162-209, one segment
AddSegment ==
  /\ calc.pc = "d162"
  /\ LET road == calc.roads[calc.road_id]
         road_nodes == calc.road_nodes
     IN
       IF Len(road_nodes) < 2 \/ calc.i >= Len(road_nodes) - 1
       THEN calc' = [calc EXCEPT !.pc = "d119", !.road_id = @ + 1]
       ELSE
         LET start_id == road_nodes[calc.i + 1][1]
             start_coords == road_nodes[calc.i + 1][2]
             end_id == road_nodes[calc.i + 2][1]
             end_coords == road_nodes[calc.i + 2][2]
             segment_length == SegmentLength(start_coords, end_coords)
             segment_geom == IF calc.i = 0 /\ calc.i + 1 = Len(road_nodes) - 1
                             THEN road.coords
                             ELSE <<start_coords, end_coords>>
             speed == speed_kph(road.speed_limit)
             attributes == [road_id |-> calc.road_id, length |-> segment_length,
                            speed |-> speed,
                            travel_time |-> travel_time(segment_length, speed),
                            geometry |-> segment_geom]
             both == bidirectional(road)
             with_forward == add_edge(calc.edges, start_id, end_id, attributes)
         IN
           IF start_id = end_id
           THEN calc' = [calc EXCEPT !.i = @ + 1]
           ELSE calc' = [calc EXCEPT
                  !.i = @ + 1,
                  !.forward = @ \cup {[road_id |-> calc.road_id, i |-> calc.i,
                                       u |-> start_id, v |-> end_id]},
                  !.edges = IF both
                            THEN add_edge(with_forward, end_id, start_id,
                                          with_forward[<<start_id, end_id>>])
                            ELSE with_forward]
  /\ ServerUnchanged

InitBuild ==
  /\ env \in TrafficWorkloads
  /\ status_history = <<>>
  /\ Constructed
  /\ calc \in {BuildCall(r, j) : r \in RoadLists, j \in JunctionLists}

NextBuild == AddJunction \/ NextRoad \/ ResolveCoordinate \/ AddSegment

SpecBuild == InitBuild /\ [][NextBuild]_vars

\* The program on the same workloads and on one more: the fleet of the
\* station beside D, with time for its truck to finish handling a call.
OneWayWorkloads ==
  Workloads
    \cup {[FireFleet EXCEPT !.facilities = "oneway"]
            @@ [requests |-> 1, ticks |-> MaxTicks, captures |-> 0]}

InitOneWay ==
  /\ env \in OneWayWorkloads
  /\ status_history = <<>>
  /\ Started

SpecOneWay == InitOneWay /\ [][Next]_vars

\* The program on the same workloads, watched while get_state reads.
WatchedWorkloads == {[w EXCEPT !.watch = TRUE] : w \in Workloads}

InitWatched ==
  /\ env \in WatchedWorkloads
  /\ status_history = <<>>
  /\ Started

SpecWatched == InitWatched /\ [][Next]_vars

\* The program started on the history file of an earlier run:
\* _load_status_history (vehicle_controller.py 33-39) returns the n entries
\* of the file, told apart here by their position in the file. The
\* simulation thread, which never touches the history, stands still.
LoadedLengths == {HistoryCap - 1, HistoryCap}

load_status_history(n) == [k \in 1..n |-> [vehicles |-> <<>>, loaded |-> k]]

HistWorkloads ==
  {[requests |-> 1, ticks |-> 0, captures |-> MaxMonitorCaptures] @@ FireFleet}

InitHist ==
  /\ env \in HistWorkloads
  /\ status_history \in {load_status_history(n) : n \in LoadedLengths}
  /\ Started

NextHist == ApiNext \/ MonitorNext

SpecHist == InitHist /\ [][NextHist]_vars

\* ------------------------------------------------------- police fleet
\* The program with a police station: five cars on patrol, one dispatch, and
\* enough ticks for the dispatched car to arrive, handle the call, return
\* and go on patrol again; and the same fleet with simulation_speed 0, where
\* every tick has simulated_time_step 0.
MaxPatrolTicks == 12
MaxZeroTicks == 2

PoliceWorkloads ==
  { [requests |-> 1, ticks |-> MaxPatrolTicks, captures |-> 0, resets |-> 0,
     calls |-> 0, facilities |-> "police", simulation_speed |-> SimulationSpeed,
     seed |-> "first", watch |-> FALSE],
    [requests |-> 1, ticks |-> MaxZeroTicks, captures |-> 0, resets |-> 0,
     calls |-> 0, facilities |-> "police", simulation_speed |-> 0,
     seed |-> "last", watch |-> FALSE] }

PoliceVehicleTypes == {"police_car", ""}

PoliceDestinations == {<<100, 0>>, <<0, 10>>}

InitPolice ==
  /\ env \in PoliceWorkloads
  /\ status_history = <<>>
  /\ Started

\* The simulation thread is scheduled between requests only: a handler runs
\* to its response without a step of the loop in between (Spec has all the
\* interleavings of the two).
ApiIdle == pc["api"] = "idle"

NextPolice ==
  \/ ApiIdle /\ SimLoop
  \/ ApiIdle /\ SimNextVehicle
  \/ ApiIdle /\ SimBranch
  \/ ApiIdle /\ UpdateMovement
  \/ ApiIdle /\ Arrive
  \/ ApiIdle /\ SimHandling
  \/ ApiIdle /\ ReturnToFacility
  \/ ApiIdle /\ UpdateRouteGeometry("sim")
  \/ ApiIdle /\ UpdatePatrol
  \/ ApiIdle /\ StartPatrol
  \/ ApiIdle /\ (\E ok \in BOOLEAN : SimSave(ok))
  \/ ApiIdle /\ SimAdvance
  \/ \E vt \in PoliceVehicleTypes, d \in PoliceDestinations : Request(vt, d)
  \/ ApiSteps

SpecPolice == InitPolice /\ [][NextPolice]_vars

\* The same scheduling for either fleet, with time for a fire truck to be
\* called out again on its way home.
FleetWorkloads ==
  PoliceWorkloads
    \cup {[requests |-> MaxRequests, ticks |-> MaxTicks, captures |-> 0] @@ FireFleet}

InitFleet ==
  /\ env \in FleetWorkloads
  /\ status_history = <<>>
  /\ Started

SpecFleet == InitFleet /\ [][NextPolice]_vars

\* ------------------------------------------------ start, stop and reset
\* The calls that start and stop the two loops, made on the thread that runs
\* the application's event handlers: start_monitoring and stop_monitoring
\* (api.py 82 and 91), and POST /api/reset-simulation (api.py 381-401) with
\* stop_simulation, initialize_vehicles and start_simulation.
\*
\* pc and the locals describe one thread per loop: the oldest that is still
\* alive. A thread started while it lives is counted in ctl.loops and runs
\* the same loop; its steps are not modelled. ctl.stopped[t] tells that a
\* stop has cleared the flag since the described thread started.
Ended(t) == pc[t] \in {"exit", "crashed"}

\* Variant: start_monitoring without the test of line 53.
already_running_unchecked(flag) == FALSE

\* vehicle_controller.py 53, vehicle_simulation.py 309.
already_running(flag) == flag

\* threading.Thread(target=...).start() for loop t.
StartThread(t) ==
  IF Ended(t)
  THEN /\ pc' = [pc EXCEPT ![t] = IF t = "sim" THEN "s330" ELSE "c92",
                            !["api"] = IF t = "sim" THEN "a399" ELSE "idle"]
       /\ ctl' = [ctl EXCEPT !.loops[t] = @ + 1, !.stopped[t] = FALSE]
  ELSE /\ pc' = [pc EXCEPT !["api"] = IF t = "sim" THEN "a399" ELSE "idle"]
       /\ ctl' = [ctl EXCEPT !.loops[t] = @ + 1]

\* A call of start_monitoring or stop_monitoring arrives.
MonitoringCall(label) ==
  /\ pc["api"] = "idle"
  /\ ctl.calls < env.calls
  /\ ctl' = [ctl EXCEPT !.calls = @ + 1]
  /\ Goto("api", label)
  /\ UNCHANGED <<vehicles, simulated_time, simulation_running, monitoring, lock,
                 status_history, sim, api, cap, geo, env, calc>>

\* start_monitoring, vehicle_controller.py 53-63.
StartMonitoring ==
  /\ pc["api"] = "c53"
  /\ IF already_running(monitoring)
     THEN /\ Goto("api", "idle")
          /\ ctl' = [ctl EXCEPT !.noop = @ \cup {"start_monitoring"}]
          /\ UNCHANGED monitoring
     ELSE monitoring' = TRUE /\ StartThread("monitor")
  /\ UNCHANGED <<vehicles, simulated_time, simulation_running, lock,
                 status_history, sim, api, cap, geo, env, calc>>

\* stop_monitoring, vehicle_controller.py 68.
StopMonitoring ==
  /\ pc["api"] = "c68"
  /\ monitoring' = FALSE
  /\ ctl' = [ctl EXCEPT !.stopped["monitor"] = TRUE,
                        !.noop = IF monitoring THEN @ ELSE @ \cup {"stop_monitoring"}]
  /\ Goto("api", "c70")
  /\ UNCHANGED <<vehicles, simulated_time, simulation_running, lock,
                 status_history, sim, api, cap, geo, env, calc>>

\* thread.join(timeout=5), vehicle_controller.py 70 and
\* vehicle_simulation.py 323: the call returns when the thread has ended, or
\* after five seconds whatever the thread is doing.
Join ==
  /\ pc["api"] \in {"c70", "s323"}
  /\ Goto("api", IF pc["api"] = "c70" THEN "idle" ELSE "a393")
  /\ UNCHANGED <<vehicles, simulated_time, simulation_running, monitoring, lock,
                 status_history, sim, api, cap, geo, env, calc, ctl>>

\* api.py 390 with stop_simulation, vehicle_simulation.py 321.
ResetStop ==
  /\ pc["api"] = "idle"
  /\ ctl.resets < env.resets
  /\ simulation_running' = FALSE
  /\ ctl' = [ctl EXCEPT !.resets = @ + 1, !.stopped["sim"] = TRUE]
  /\ Goto("api", "s323")
  /\ UNCHANGED <<vehicles, simulated_time, monitoring, lock,
                 status_history, sim, api, cap, geo, env, calc>>

\* The simulation thread is inside the for loop of a tick.
MidTick == pc["sim"] \notin {"s330", "s353", "s358", "exit", "crashed"}

\* api.py 393: simulator.vehicles is bound to a new empty list. A capture
\* that is iterating keeps the old list. A tick that is iterating keeps it
\* too: the rest of that tick updates vehicles of the old list only, and the
\* thread is next described at line 353.
ResetClear ==
  /\ pc["api"] = "a393"
  /\ vehicles' = <<>>
  /\ ctl' = [ctl EXCEPT !.seen = {},
                        !.old = IF pc["monitor"] \in {"s50", "s52", "s53", "s55", "s57"}
                                THEN Fleet("monitor") ELSE <<>>]
  /\ pc' = [pc EXCEPT !["api"] = "a394",
                      !["sim"] = IF MidTick THEN "s353" ELSE @]
  /\ sim' = IF MidTick THEN NoSimLocals ELSE sim
  /\ geo' = [geo EXCEPT !["sim"] = NoGeo]
  /\ UNCHANGED <<simulated_time, simulation_running, monitoring, lock,
                 status_history, api, cap, env, calc>>

\* initialize_vehicles, vehicle_simulation.py 240-273, one append per step;
\* start_patrol (169-176) on the police car just appended takes three.
ResetAppend ==
  /\ pc["api"] \in {"a394", "s170", "s171", "s175"}
  /\ LET fresh == InitFrom(Roster(env.facilities), env.seed, FALSE, 1, 1, <<>>)
         n == Len(vehicles)
     IN CASE pc["api"] = "a394" ->
               IF n < Len(fresh)
               THEN /\ vehicles' = Append(vehicles, fresh[n + 1])
                    /\ ctl' = Saw(n + 1, "idle")
                    /\ Goto("api", IF IsPoliceCar(fresh[n + 1]) THEN "s170" ELSE "a394")
               ELSE Goto("api", "s276") /\ UNCHANGED <<vehicles, ctl>>
          [] pc["api"] = "s170" ->
               /\ Goto("api", IF vehicles[n].status = "idle" THEN "s171" ELSE "a394")
               /\ UNCHANGED <<vehicles, ctl>>
          [] pc["api"] = "s171" ->
               /\ vehicles' = [vehicles EXCEPT ![n] =
                      [start_patrol([@ EXCEPT !.status = "idle"],
                                    generate_patrol_route(@.facility_location, env.seed))
                         EXCEPT !.current_speed = vehicles[n].current_speed]]
               /\ ctl' = Saw(n, "patrolling")
               /\ Goto("api", "s175")
          [] pc["api"] = "s175" ->
               /\ SetVehicle(n, "current_speed", vehicles[n].patrol_speed)
               /\ Goto("api", "a394")
               /\ UNCHANGED ctl
  /\ cap' = Observe(cap, vehicles', ctl'.old)
  /\ UNCHANGED <<simulated_time, simulation_running, monitoring, lock,
                 status_history, sim, api, geo, env, calc>>

\* vehicle_simulation.py 276 (293-297): the file is written, or the write
\* raises and the handler answers 500 (api.py 400-401) without restarting
\* the simulation.
ResetSave(ok) ==
  /\ pc["api"] = "s276"
  /\ IF ok THEN Goto("api", "s309") /\ api' = api
     ELSE Goto("api", "idle") /\ Respond(Error(500, "reset_failed"))
  /\ UNCHANGED <<vehicles, simulated_time, simulation_running, monitoring, lock,
                 status_history, sim, cap, geo, env, calc, ctl>>

\* api.py 397 with start_simulation, vehicle_simulation.py 309-316.
ResetStart ==
  /\ pc["api"] = "s309"
  /\ IF already_running(simulation_running)
     THEN Goto("api", "a399") /\ UNCHANGED <<simulation_running, ctl>>
     ELSE simulation_running' = TRUE /\ StartThread("sim")
  /\ sim' = IF Ended("sim") /\ ~simulation_running THEN NoSimLocals ELSE sim
  /\ UNCHANGED <<vehicles, simulated_time, monitoring, lock,
                 status_history, api, cap, geo, env, calc>>

\* api.py 399.
ResetRespond ==
  /\ pc["api"] = "a399"
  /\ Goto("api", "idle")
  /\ Respond([NoResult EXCEPT !.code = 200, !.detail = "reset"])
  /\ UNCHANGED <<vehicles, simulated_time, simulation_running, monitoring, lock,
                 status_history, sim, cap, geo, env, calc, ctl>>

LifeNext ==
  \/ \E label \in {"c53", "c68"} : MonitoringCall(label)
  \/ StartMonitoring
  \/ StopMonitoring
  \/ Join
  \/ ResetStop
  \/ ResetClear
  \/ ResetAppend
  \/ \E ok \in BOOLEAN : ResetSave(ok)
  \/ ResetStart
  \/ ResetRespond

\* The workloads with calls that start and stop the loops, none with a
\* dispatch: a reset of the fire fleet next to a tick and a capture, a reset
\* of the police fleet next to a tick, and calls of start_monitoring and
\* stop_monitoring around captures.
MaxResets == 1
MaxCalls == 3
MaxLifeTicks == 1
MaxLifeCaptures == 2

LifeWorkloads ==
  { [requests |-> 0, ticks |-> MaxLifeTicks, captures |-> 1, resets |-> MaxResets,
     calls |-> 0, facilities |-> "fire", simulation_speed |-> SimulationSpeed,
     seed |-> "first", watch |-> FALSE],
    [requests |-> 0, ticks |-> MaxLifeTicks, captures |-> 0, resets |-> MaxResets,
     calls |-> 0, facilities |-> "police", simulation_speed |-> SimulationSpeed,
     seed |-> "last", watch |-> FALSE],
    [requests |-> 0, ticks |-> 0, captures |-> MaxLifeCaptures, resets |-> 0,
     calls |-> MaxCalls, facilities |-> "fire", simulation_speed |-> SimulationSpeed,
     seed |-> "first", watch |-> FALSE] }

InitLife ==
  /\ env \in LifeWorkloads
  /\ status_history = <<>>
  /\ Started

\* Without a dispatch no vehicle is responding, handling or returning: the
\* simulation loop takes the patrol branch or none.
SimIdleNext ==
  \/ SimLoop
  \/ SimNextVehicle
  \/ SimBranch
  \/ UpdatePatrol
  \/ \E ok \in BOOLEAN : SimSave(ok)
  \/ SimAdvance

NextLife == SimIdleNext \/ MonitorNext \/ LifeNext

SpecLife == InitLife /\ [][NextLife]_vars


\* ------------------------------------------------------------ properties
ApiStep == pc'["api"] # pc["api"]

\* The request thread is inside start_response and has written status but
\* not yet the whole transition.
MidTransition == pc["api"] \in {"s68", "s69", "s70", "s71", "s85", "s86", "s88"}

\* The simulation thread is inside the update of vehicle v.
SimUpdating(v) ==
  /\ sim.vi = v
  /\ pc["sim"] \in {"s92", "s95", "s100", "s103", "s108", "s110", "s121",
                    "s125", "s133", "s126", "s129", "s131", "s132",
                    "s138", "s139", "s140", "s141", "s142", "s143",
                    "s343", "s76", "s77", "s78", "s79", "s80",
                    "s85", "s86", "s88"}

\* Nodes reachable from u along directed edges.
RECURSIVE ReachFrom(_)
ReachFrom(S) ==
  LET T == S \cup {e[2] : e \in {f \in Edges : f[1] \in S}}
  IN IF T = S THEN S ELSE ReachFrom(T)

Reachable(u, w) == w \in ReachFrom({u})

\* C1: dispatch_vehicle on a vehicle that is responding or handling ends with
\* an error and changes neither a vehicle nor the history; start_response is
\* only ever begun on a vehicle that is neither responding nor handling.
C1_BusyVehicleRefused ==
  [][/\ (/\ pc["api"] = "c75"
         /\ ApiStep
         /\ \E k \in 1..Len(vehicles) : /\ vehicles[k].vehicle_id = api.vehicle_id
                                        /\ vehicles[k].status \in Busy)
        => /\ pc'["api"] = "idle"
           /\ api'.result.code = 500
           /\ vehicles' = vehicles
           /\ status_history' = status_history
     /\ (pc["api"] = "s67" /\ ApiStep)
        => vehicles[api.vehicle].status \notin Busy]_vars

C1_Witness ==
  /\ pc["api"] = "idle"
  /\ api.result = Error(500, "not_available")

\* C2: while a snapshot capture holds the lock and iterates over the fleet,
\* no step of a dispatch changes a vehicle.
C2_NoDispatchMidSnapshot ==
  [][(lock = "monitor" /\ ApiStep) => vehicles' = vehicles]_vars

\* C3: the simulation thread is never inside the update of a vehicle while
\* start_response is part-way through its writes to the same vehicle.
C3_TickExcludesDispatch ==
  ~(MidTransition /\ SimUpdating(api.vehicle))

\* C4: a dispatch request that ends with an error has not written to any
\* vehicle: it fails only from a position before start_response.
C4_AllOrNothing ==
  [][(ApiStep /\ pc'["api"] = "idle" /\ api'.result.code # 200)
       => pc["api"] \in {"a261", "a269", "a278", "c75"}]_vars

\* C5: the closest vehicle is a candidate at least distance from the
\* destination, and no candidate before it in fleet order is as close.
C5_ClosestFirstMinimum ==
  [][(pc["api"] = "a269" /\ ApiStep)
       => LET av == api.available
              d(k) == DistSq(vehicles[k].current_location, api.dest)
          IN \E n \in 1..Len(av) :
               /\ api'.closest = av[n]
               /\ \A m \in 1..Len(av) : d(av[n]) <= d(av[m])
               /\ \A m \in 1..(n - 1) : d(av[m]) > d(av[n])]_vars

C5_Witness ==
  /\ pc["api"] = "a278"
  /\ Len(api.available) = 2
  /\ DistSq(vehicles[api.available[1]].current_location, api.dest)
       = DistSq(vehicles[api.available[2]].current_location, api.dest)
  /\ api.closest = api.available[1]

\* C6: the candidates are exactly the vehicles of the requested type that
\* are neither responding nor handling, and the vehicle that start_response
\* is applied to has the requested type.
C6_CandidatesOfRequestedType ==
  [][/\ (pc["api"] = "a261" /\ ApiStep /\ pc'["api"] = "a269")
        => {api'.available[n] : n \in 1..Len(api'.available)}
             = {k \in 1..Len(vehicles) : /\ vehicles[k].vehicle_type = api.vehicle_type
                                         /\ vehicles[k].status \notin Busy}
     /\ (pc["api"] = "s67" /\ ApiStep /\ ~api.direct)
        => vehicles[api.vehicle].vehicle_type = api.vehicle_type]_vars

\* C7: when every vehicle of the requested type is responding or handling,
\* the request ends with the no-available-vehicle error and changes neither
\* a vehicle nor the history.
C7_BusyFleetRefused ==
  [][(/\ pc["api"] = "a261"
      /\ ApiStep
      /\ \A k \in 1..Len(vehicles) :
           vehicles[k].vehicle_type = api.vehicle_type => vehicles[k].status \in Busy)
       => /\ pc'["api"] = "idle"
          /\ api'.result = Error(404, "no_available")
          /\ vehicles' = vehicles
          /\ status_history' = status_history]_vars

\* C8: when no directed path leads from the node nearest the selected vehicle
\* to the node nearest the destination, the request ends with the 400 no-path
\* error; no step of a request up to that point changes a vehicle or the
\* history.
C8_NoPathIsRequestError ==
  [][/\ (/\ pc["api"] = "a278"
         /\ ApiStep
         /\ ~Reachable(find_nearest_node(vehicles[api.closest].current_location),
                       find_nearest_node(api.dest)))
        => /\ pc'["api"] = "idle"
           /\ api'.result = Error(400, "no_path")
     /\ (pc["api"] \in {"idle", "a261", "a269", "a278"} /\ ApiStep)
        => (vehicles' = vehicles /\ status_history' = status_history)]_vars

C8_Witness ==
  /\ pc["api"] = "idle"
  /\ api.result = Error(400, "no_path")
  /\ \A k \in 1..Len(vehicles) : vehicles[k].status = "idle"
  /\ status_history = <<>>

\* C9: the response of a successful dispatch names the dispatched vehicle,
\* the number of nodes of its route and the sum of the travel times of the
\* route's edges; the route A, B, C gives 3 nodes and the two edge times.
EdgeTimeSum(route) ==
  LET acc[i \in 0..(Len(route) - 1)] ==
        IF i = 0 THEN 0 ELSE acc[i - 1] + TravelTime[<<route[i], route[i + 1]>>]
  IN acc[Len(route) - 1]

C9_ResponseOfDispatch ==
  [][(pc["api"] = "a299" /\ ApiStep)
       => /\ api'.result.code = 200
          /\ api'.result.vehicle_id = vehicles[api.vehicle].vehicle_id
          /\ api'.result.route_length = Len(api.route)
          /\ api'.result.estimated_time = EdgeTimeSum(api.route)
          /\ api.route = <<"A", "B", "C">>
               => /\ api'.result.route_length = 3
                  /\ api'.result.estimated_time
                       = TravelTime[<<"A", "B">>] + TravelTime[<<"B", "C">>]]_vars

C9_Witness ==
  /\ pc["api"] = "idle"
  /\ api.result.code = 200
  /\ api.result.vehicle_id = <<"FT", 1>>
  /\ api.result.route_length = 3
  /\ api.result.estimated_time = 7

\* C10: the capture made by a dispatch appends one snapshot, and that
\* snapshot records the dispatched vehicle as responding on the route it was
\* dispatched with.
C10_DispatchSnapshot ==
  [][(pc["api"] = "c115" /\ ApiStep)
       => /\ Len(status_history') = Len(status_history) + 1
          /\ LET r == status_history'[Len(status_history')].vehicles[api.vehicle]
             IN /\ r.status = "responding"
                /\ r.route_nodes = api.route]_vars

\* C11: a capture appends its snapshot as the newest entry and keeps the
\* entries before it in order; the history then holds at most 1440 entries,
\* and a history that held 1440 holds 1440 again, without its oldest entry.
\* Nothing but a capture changes the history.
C11_HistoryCapped ==
  [][/\ \A t \in CaptureThreads :
          (pc[t] = "c115" /\ pc'[t] # pc[t])
            => LET h == status_history
                   h2 == status_history'
                   dropped == Len(h) + 1 - Len(h2)
               IN /\ Len(h2) <= HistoryCap
                  /\ Len(h) < HistoryCap => dropped = 0
                  /\ Len(h) = HistoryCap => dropped = 1
                  /\ h2[Len(h2)] = [vehicles |-> cap[t].vehicle_states]
                  /\ \A i \in 1..(Len(h2) - 1) : h2[i] = h[i + dropped]
     /\ status_history' # status_history
          => \E t \in CaptureThreads : pc[t] = "c115" /\ pc'[t] # pc[t]]_vars

C11_Witness ==
  /\ Len(status_history) = HistoryCap
  /\ "loaded" \in DOMAIN status_history[1]
  /\ status_history[1].loaded = 2
  /\ "loaded" \notin DOMAIN status_history[HistoryCap]
  /\ \A t \in CaptureThreads : pc[t] # "c122"

\* C12: a failure inside one iteration does not end a background loop: while
\* its running flag is set, the monitoring loop is not ended by a failed
\* history write, and the simulation loop is not ended by a failed
\* vehicle-state write or a failed return-route computation.
C12_LoopsSurviveFailures ==
  /\ monitoring => pc["monitor"] # "crashed"
  /\ simulation_running
       => ~(pc["sim"] = "crashed" /\ sim.error \in {"OSError", "NetworkXNoPath"})

\* The controller's state and the monitoring loop.
MonitorState == <<monitoring, ctl.loops["monitor"], pc["monitor"], cap["monitor"],
                  status_history, lock>>

\* C13: start_monitoring called while the monitor is running starts no second
\* monitoring loop and leaves the controller's state as it is, and
\* stop_monitoring called while the monitor is not running, from the
\* assignment of the flag to the return of the join, changes nothing.
C13_MonitoringIdempotent ==
  [][/\ (pc["api"] = "c53" /\ monitoring /\ ApiStep) => MonitorState' = MonitorState
     /\ (pc["api"] = "c68" /\ ~monitoring /\ ApiStep) => MonitorState' = MonitorState
     /\ (pc["api"] = "c70" /\ ApiStep) => MonitorState' = MonitorState]_vars

\* Both calls have happened: a start that found the monitor running and a
\* stop that found it stopped, and the second stop has returned.
C13_Witness ==
  /\ ctl.noop = {"start_monitoring", "stop_monitoring"}
  /\ ctl.calls = MaxCalls
  /\ pc["api"] = "idle"
  /\ ctl.loops["monitor"] = 1
\* C14: once stop_monitoring or stop_simulation has cleared the running flag,
\* the loop that was running begins no further tick: the monitoring loop
\* enters no capture and the simulation loop enters no round of updates.
C14_NoTickAfterStop ==
  [][/\ (pc["monitor"] = "c92" /\ pc'["monitor"] = "c101") => ~ctl.stopped["monitor"]
     /\ (pc["sim"] = "s330" /\ pc'["sim"] \in {"s338", "s353"}) => ~ctl.stopped["sim"]]_vars
\* C15: the simulation loop runs until an explicit stop: its thread has ended
\* only if stop_simulation has cleared the flag since the thread started.
C15_RunsUntilStopped == Ended("sim") => ctl.stopped["sim"]
\* A vehicle in the state its constructor leaves it in.
AtHomeIdle(v) ==
  /\ v.status = "idle"
  /\ v.current_location = v.facility_location
  /\ v.route_nodes = <<>>
  /\ v.route_geometry = <<>>
  /\ v.current_speed = 0

\* C16: when reset_simulation answers, every vehicle of the fleet, police cars
\* included, is idle at its home facility with an empty route and speed 0,
\* and the simulation is running again.
C16_ResetLeavesFleetIdle ==
  [][(pc["api"] = "a399" /\ pc'["api"] = "idle")
       => /\ vehicles' # <<>>
          /\ \A k \in 1..Len(vehicles') : AtHomeIdle(vehicles'[k])
          /\ simulation_running']_vars
\* The vehicle ids of a complete fleet, in fleet order.
FleetIds ==
  LET fleet == initialize_vehicles(Roster(env.facilities), env.seed)
  IN [k \in 1..Len(fleet) |-> fleet[k].vehicle_id]

\* C17: every snapshot in the history holds exactly one record for every
\* vehicle of a complete fleet, never a fleet that reset_simulation has
\* cleared and not yet rebuilt.
C17_SnapshotsHoldWholeFleet ==
  \A i \in 1..Len(status_history) :
    LET records == status_history[i].vehicles
    IN [k \in 1..Len(records) |-> records[k].vehicle_id] = FleetIds
\* A step of the simulation thread.
SimStep == pc'["sim"] # pc["sim"]

\* C19: a tick with simulated_time_step = 0 leaves every vehicle's location,
\* status and route cursor as they are.
C19_ZeroStepChangesNothing ==
  [][(simulated_time_step = 0 /\ SimStep)
       => \A k \in 1..Len(vehicles) :
            /\ vehicles'[k].current_location = vehicles[k].current_location
            /\ vehicles'[k].status = vehicles[k].status
            /\ vehicles'[k].route_index = vehicles[k].route_index]_vars
Statuses == {"idle", "responding", "handling", "returning", "patrolling"}

\* The update rules whose trigger holds for vehicle v, each named by the
\* line its update begins at.
Applicable(v) ==
  {r \in {"s92", "s185", "s343", "s349"} :
     \/ r = "s92" /\ v.status \in {"responding", "returning"}
     \/ r = "s185" /\ v.status = "patrolling" /\ IsPoliceCar(v)
     \/ r = "s343" /\ v.status = "handling"
     \/ r = "s349" /\ v.status = "idle" /\ IsPoliceCar(v)}

OnSegment(p, a, b) ==
  /\ (b[1] - a[1]) * (p[2] - a[2]) = (b[2] - a[2]) * (p[1] - a[1])
  /\ (p[1] - a[1]) * (p[1] - b[1]) <= 0
  /\ (p[2] - a[2]) * (p[2] - b[2]) <= 0

\* Point p lies on the polyline through the points of g.
OnPolyline(p, g) ==
  \/ \E i \in 1..Len(g) : p = g[i]
  \/ \E i \in 1..(Len(g) - 1) : OnSegment(p, g[i], g[i + 1])

OnRoute(v) == v.status \in {"responding", "returning"}
                => OnPolyline(v.current_location, v.route_geometry)

OnPatrolRoute(v) == v.status = "patrolling"
                      => OnPolyline(v.current_location, v.patrol_geometry)

AtHome(v) == v.current_location = v.facility_location

ArrivingHome(k) == pc["sim"] = "s139" /\ sim.vi = k

C21_RecordsConsistent ==
  [][\A t \in CaptureThreads :
       (pc[t] = "s57" /\ pc'[t] # "s57")
         => LET r == cap'[t].vehicle_states[Len(cap'[t].vehicle_states)]
            IN [status |-> r.status, location |-> r.location, speed |-> r.speed,
                route_nodes |-> r.route_nodes] \in cap[t].held]_vars

\* The vehicle state r has what the query q asks for.
Matching(q, r) ==
  /\ q.vehicle_type # NoFilter => r.vehicle_type = q.vehicle_type
  /\ q.facility_id # NoFacility => r.facility_id = q.facility_id
  /\ q.status # NoFilter => r.status = q.status

\* C22: a listing holds exactly the vehicles of the fleet that match every
\* filter given, facility id 0 included: a vehicle of the fleet is listed iff
\* its type, its facility and its status are the ones asked for.
C22_ListingMatchesFilters ==
  \A k \in 1..Len(api.listing) :
    LET q == api.listing[k] IN
      q.vehicles = SelectSeq(q.fleet, LAMBDA r : Matching(q, r))

\* The call of compute_delay_factor has returned; its arguments.
Returned == calc.pc = "none" /\ "returned" \in DOMAIN calc /\ calc.returned

GivenSpeed == Get(Get(calc.traffic_json, "currentFlow", <<>>), "speed", 0)

GivenFreeFlow == Get(Get(calc.traffic_json, "currentFlow", <<>>), "freeFlow", 0)

\* C23 as stated: compute_delay_factor never returns less than 1.0; it returns
\* free_flow / current_speed when the speed is positive and the ratio is at
\* least 1, 1.0 when the speed exceeds the free-flow speed, and default_max
\* when the speed is 0.
C23_DelayFactorAsStated ==
  Returned =>
    /\ ~Less(calc.factor, One)
    /\ (GivenSpeed > 0 /\ GivenFreeFlow >= GivenSpeed)
         => calc.factor = Ratio(GivenFreeFlow, GivenSpeed)
    /\ (GivenSpeed > 0 /\ GivenSpeed > GivenFreeFlow) => calc.factor = One
    /\ GivenSpeed = 0 => calc.factor = calc.default_max

\* C23 amended: as above, but at speed 0 the result is default_max only when
\* default_max is at least 1.0, and 1.0 otherwise.
C23_DelayFactorAtLeastOne ==
  Returned =>
    /\ ~Less(calc.factor, One)
    /\ (GivenSpeed > 0 /\ GivenFreeFlow >= GivenSpeed)
         => calc.factor = Ratio(GivenFreeFlow, GivenSpeed)
    /\ (GivenSpeed > 0 /\ GivenSpeed > GivenFreeFlow) => calc.factor = One
    /\ GivenSpeed = 0 =>
         calc.factor = IF Less(calc.default_max, One) THEN One ELSE calc.default_max

C23_Witness ==
  /\ Returned
  /\ GivenSpeed = 2 /\ GivenFreeFlow = 3
  /\ calc.factor = <<3, 2>>

\* The graph being built, and the graph create_road_network_graph returns.
Building == "edges" \in DOMAIN calc

Built == Building /\ calc.pc = "none"

Positive(q) == q[1] > 0

\* C24: in every built graph both endpoints of every edge are nodes with a
\* position, node ids are unique (no two nodes were added under one id), and
\* every edge with length > 0 has travel_time > 0.
C24_GraphWellFormed ==
  Building =>
    /\ \A e \in DOMAIN calc.edges :
         /\ e[1] \in DOMAIN calc.nodes /\ e[2] \in DOMAIN calc.nodes
         /\ \A n \in {e[1], e[2]} : {"x", "y"} \subseteq DOMAIN calc.nodes[n]
         /\ calc.edges[e].length > 0 => Positive(calc.edges[e].travel_time)
    /\ Cardinality(DOMAIN calc.nodes) = calc.added

C24_Witness ==
  /\ Built
  /\ \E e \in DOMAIN calc.edges :
       /\ e[1][1] = "J" /\ e[2][1] = "R"
       /\ calc.edges[e].length > 0
       /\ calc.roads[calc.edges[e].road_id].speed_limit < 0
       /\ calc.edges[e].speed = DefaultSpeed

\* The edges e and m of the graph g have the same length, speed and
\* travel_time.
SameWeights(g, e, m) ==
  /\ g[e].length = g[m].length
  /\ g[e].speed = g[m].speed
  /\ g[e].travel_time = g[m].travel_time

MarkedBoth(f) == calc.roads[f.road_id].traffic_direction = "Both directions"

Registered == {calc.junctions[j] : j \in 1..(calc.j - 1)}

JunctionsMerged ==
  \A a, b \in Registered :
    WithinTolerance(a.point, b.point) <=> JunctionNode(a) = JunctionNode(b)

CoordinatesSnapped ==
  \A r \in calc.resolved :
    (\E a \in Registered : WithinTolerance(a.point, r[1]))
      => \E a \in Registered : WithinTolerance(a.point, r[1]) /\ r[2] = JunctionNode(a)

\* C26: two junction points within the tolerance of each other resolve to the
\* same node id and two farther apart to distinct nodes; a road coordinate
\* within the tolerance of a junction resolves to that junction's node, not
\* to a road vertex.
C26_Snapping == Building => JunctionsMerged /\ CoordinatesSnapped

\* The transitions of the table of the vehicle state machine.
TableTransitions ==
  {<<"idle", "responding">>, <<"responding", "handling">>,
   <<"handling", "returning">>, <<"returning", "idle">>,
   <<"idle", "patrolling">>}

\* Every change of a status in this step is one of the transitions T, and
\* only a police car is or becomes patrolling.
ChangesWithin(T) ==
  \A k \in 1..Len(vehicles) :
    /\ k <= Len(vehicles') /\ vehicles'[k].status # vehicles[k].status
         => <<vehicles[k].status, vehicles'[k].status>> \in T
    /\ vehicles[k].status = "patrolling" => IsPoliceCar(vehicles[k])

\* C27: every change of a vehicle's status is a transition of the table, and
\* a vehicle that is not a police car is never patrolling.
C27_OnlyTableTransitions == [][ChangesWithin(TableTransitions)]_vars

\* The shortest paths by travel_time from the node nearest the position of
\* vehicle v to the node nearest its home facility.
WaysHome(v) ==
  shortest_path(find_nearest_node(v.current_location),
                find_nearest_node(v.facility_location))

\* C28: a vehicle enters handling with the simulated time t of that tick as
\* its start; while it is handling its status changes only to returning and
\* only in a tick whose simulated time is at least t + 600; the tick that
\* finds it handling leaves it so when the time is below t + 600 and starts
\* its return otherwise, and the route it is given is a shortest path by
\* travel_time from the node nearest its position to the node nearest home.
C28_HandlingLastsTenMinutes ==
  [][/\ \A k \in 1..Len(vehicles) :
          LET v == vehicles[k] IN
            /\ (v.status # "handling" /\ vehicles'[k].status = "handling")
                 => vehicles'[k].handling_start_time = simulated_time
            /\ (v.status = "handling" /\ vehicles'[k].status # "handling")
                 => /\ vehicles'[k].status = "returning"
                    /\ simulated_time >= v.handling_start_time + HandlingDuration
     /\ (pc["sim"] = "s343" /\ SimStep)
          => LET v == vehicles[sim.vi] IN
               IF simulated_time < v.handling_start_time + HandlingDuration
               THEN pc'["sim"] = "next"
               ELSE pc'["sim"] = "s76" /\ sim'.route_back \in WaysHome(v)
     /\ (pc["sim"] = "s78" /\ SimStep)
          => vehicles'[sim.vi].route_nodes \in WaysHome(vehicles'[sim.vi])]_vars

\* Speed and route of vehicle v are those of its status.
SpeedAndRouteOf(v) ==
  CASE v.status \in {"idle", "handling"} ->
         v.current_speed = 0 /\ v.route_nodes = <<>>
    [] v.status = "responding" ->
         v.current_speed = v.max_speed /\ v.route_nodes # <<>>
    [] v.status = "returning" ->
         v.current_speed = return_speed(v.max_speed) /\ v.route_nodes # <<>>
    [] v.status = "patrolling" ->
         IsPoliceCar(v) /\ v.current_speed = v.patrol_speed
    [] OTHER -> FALSE

\* No thread is inside a call that changes vehicle k.
AtRest(k) == ~(MidTransition /\ api.vehicle = k) /\ ~SimUpdating(k)

\* C29: whenever no call that changes the vehicle is in progress, its speed
\* and route agree with its status: idle or handling, speed 0 and empty
\* route; responding, max_speed and a non-empty route; returning, 0.7 x
\* max_speed and a non-empty route; patrolling, patrol_speed.
C29_SpeedAndRouteAgree ==
  \A k \in 1..Len(vehicles) : AtRest(k) => SpeedAndRouteOf(vehicles[k])

\* The waypoint that vehicle v is heading for on its route and on its patrol,
\* and the distance it may cover in one tick.
Waypoint(v) == v.route_geometry[v.route_index + 1]

PatrolWaypoint(v) == v.patrol_geometry[v.patrol_index + 1]

MayCover(v) == max_distance(v.current_speed, simulated_time_step)

Within(v, target) == DistSq(v.current_location, target) <= MayCover(v) * MayCover(v)

\* C30: in its tick a responding or returning vehicle whose waypoint is within
\* max_distance is put on the waypoint and its route cursor advances by one,
\* the route ending when the cursor has passed the last node; otherwise
\* cursor and status stay and the vehicle moves max_distance towards the
\* waypoint. A patrolling police car does the same with its patrol cursor,
\* which returns to 0 after the last waypoint.
C30_MoveOrReachWaypoint ==
  [][/\ (pc["sim"] = "s108" /\ SimStep)
          => LET v == vehicles[sim.vi]
                 w == vehicles'[sim.vi]
             IN /\ v.status \in {"responding", "returning"}
                /\ v.route_index < Len(v.route_geometry)
                /\ IF Within(v, Waypoint(v))
                   THEN w.current_location = Waypoint(v) /\ pc'["sim"] = "s110"
                   ELSE /\ w.current_location =
                             move_toward(v.current_location, Waypoint(v), MayCover(v))
                        /\ w.route_index = v.route_index /\ w.status = v.status
                        /\ pc'["sim"] = "s121"
     /\ (pc["sim"] = "s110" /\ SimStep)
          => /\ vehicles'[sim.vi].route_index = vehicles[sim.vi].route_index + 1
             /\ vehicles'[sim.vi].current_location
                  = vehicles[sim.vi].route_geometry[vehicles[sim.vi].route_index + 1]
     /\ (pc["sim"] = "s121" /\ SimStep)
          => LET v == vehicles[sim.vi] IN
               (pc'["sim"] = "s125") <=> (v.route_index >= Len(v.route_geometry))
     /\ (pc["sim"] = "s195" /\ SimStep)
          => LET v == vehicles[sim.vi]
                 w == vehicles'[sim.vi]
             IN /\ v.status = "patrolling"
                /\ IF Within(v, PatrolWaypoint(v))
                   THEN /\ w.current_location = PatrolWaypoint(v)
                        /\ w.patrol_index = IF v.patrol_index + 1 = Len(v.patrol_geometry)
                                             THEN 0 ELSE v.patrol_index + 1
                   ELSE /\ w.current_location =
                             move_toward(v.current_location, PatrolWaypoint(v), MayCover(v))
                        /\ w.patrol_index = v.patrol_index
                /\ w.status = v.status]_vars

\* ------------------------------------------------- one tick, in any order
\* The bodies of the simulation loop's branches as functions of the vehicle
\* they are called on and of the simulated time: what the methods of
\* EmergencyVehicle and PoliceCar do to self when nothing else runs.
Geometry(nodes) == [k \in 1..Len(nodes) |-> NodePos[nodes[k]]]

arrive_at_facility(v) ==
  [v EXCEPT !.status = "idle", !.current_location = v.facility_location,
            !.destination = NoPoint, !.route_nodes = <<>>,
            !.route_geometry = <<>>, !.current_speed = 0]

arrive_at_destination(v, now) ==
  IF v.status = "responding"
  THEN [v EXCEPT !.status = "handling", !.handling_start_time = now,
                 !.current_speed = 0, !.route_nodes = <<>>, !.route_geometry = <<>>]
  ELSE IF v.status = "returning" THEN arrive_at_facility(v)
  ELSE v

return_to_facility(v, route_nodes) ==
  [v EXCEPT !.status = "returning", !.destination = v.facility_location,
            !.route_nodes = route_nodes, !.route_index = 0,
            !.current_speed = return_speed(v.max_speed),
            !.route_geometry = Geometry(route_nodes)]

update_movement(v, step, now) ==
  IF v.status \notin {"responding", "returning"} \/ v.route_nodes = <<>> THEN v
  ELSE LET target_pos == v.route_geometry[v.route_index + 1]
           maxd == max_distance(v.current_speed, step)
           moved == IF DistSq(v.current_location, target_pos) <= maxd * maxd
                    THEN [v EXCEPT !.current_location = target_pos,
                                   !.route_index = @ + 1]
                    ELSE [v EXCEPT !.current_location =
                                     move_toward(v.current_location, target_pos, maxd)]
       IN IF moved.route_index >= Len(moved.route_geometry)
          THEN arrive_at_destination(moved, now)
          ELSE moved

update_patrol(v, step) ==
  IF v.status = "patrolling" /\ v.patrol_geometry # <<>>
  THEN LET target_pos == v.patrol_geometry[v.patrol_index + 1]
           maxd == max_distance(v.current_speed, step)
       IN IF DistSq(v.current_location, target_pos) <= maxd * maxd
          THEN [v EXCEPT !.current_location = target_pos,
                         !.patrol_index = (@ + 1) % Len(v.patrol_geometry)]
          ELSE [v EXCEPT !.current_location =
                           move_toward(v.current_location, target_pos, maxd)]
  ELSE v

\* The routes home that line 346 can return for v.
routes_back(v) ==
  shortest_path(find_nearest_node(v.current_location),
                find_nearest_node(v.facility_location))

\* The exception that the body of the for loop raises on v, "" if none:
\* line 96 calls arrive_at_destination without its argument, line 346 finds
\* no path.
raised(v, now) ==
  IF /\ v.status \in {"responding", "returning"} /\ v.route_nodes # <<>>
     /\ v.route_index >= Len(v.route_geometry)
  THEN "TypeError"
  ELSE IF v.status = "handling" /\ handling_over(v, now) /\ routes_back(v) = {}
  THEN "NetworkXNoPath"
  ELSE ""

\* Lines 338-350 on one vehicle that raises nothing: the vehicles it can be
\* afterwards (one for each shortest route home).
updated(v, step, now, seed) ==
  IF v.status \in {"responding", "returning"} THEN {update_movement(v, step, now)}
  ELSE IF IsPoliceCar(v) /\ v.status = "patrolling" THEN {update_patrol(v, step)}
  ELSE IF v.status = "handling"
  THEN IF handling_over(v, now)
       THEN {return_to_facility(v, r) : r \in routes_back(v)}
       ELSE {v}
  ELSE IF v.status = "idle" /\ IsPoliceCar(v)
  THEN {start_patrol(v, generate_patrol_route(v.facility_location, seed))}
  ELSE {v}

\* The size of the fleet, and the ticks that the loop has completed.
MaxFleet == 3

TicksBefore == 7

\* Vehicles as a tick can find them, each with its own id: fire trucks of
\* the station beside A that are idle, called out, about to arrive at B,
\* handling a call at B for a long and for a short time, and about to come
\* home; a truck of the station beside D that has handled a call at C; a
\* police car of the station at A on patrol, and one that has come home.
OnTheWay(v, status, location, nodes, index, speed) ==
  [v EXCEPT !.status = status, !.current_location = location,
            !.destination = IF status = "responding" THEN NodePos[nodes[Len(nodes)]]
                            ELSE v.facility_location,
            !.route_nodes = nodes, !.route_geometry = Geometry(nodes),
            !.route_index = index, !.current_speed = speed]

AtScene(v, location, since) ==
  [v EXCEPT !.status = "handling", !.current_location = location,
            !.destination = location, !.handling_start_time = since]

TickVehicles ==
  LET home == Facilities[1].location
      truck(n) == NewVehicle("FT", n, "fire_truck", 0, home, FireTruckMaxSpeed)
      stranded == NewVehicle("FT", 7, "fire_truck", 1, OneWayFacilities[1].location,
                             FireTruckMaxSpeed)
      car(n) == NewPoliceCar(n, 2, PoliceFacilities[1].location)
  IN { truck(1),
       OnTheWay(truck(2), "responding", home, <<"A", "B">>, 0, FireTruckMaxSpeed),
       OnTheWay(truck(3), "responding", <<80, 0>>, <<"A", "B">>, 1, FireTruckMaxSpeed),
       AtScene(truck(4), <<100, 0>>, 0),
       AtScene(truck(5), <<100, 0>>, TicksBefore * RealTimeStep * SimulationSpeed),
       OnTheWay(truck(6), "returning", <<44, 0>>, <<"B", "A">>, 1,
                return_speed(FireTruckMaxSpeed)),
       AtScene(stranded, <<200, 0>>, 0),
       start_patrol(car(8), generate_patrol_route(car(8).facility_location, "first")),
       car(9) }

\* The vehicle of TickVehicles with the id of v.
Before(v) == CHOOSE u \in TickVehicles : u.vehicle_id = v.vehicle_id

\* The fleets of MaxFleet of these vehicles, in every order.
TickFleets ==
  {f \in [1..MaxFleet -> TickVehicles] :
     \A j, k \in 1..MaxFleet : j # k => f[j].vehicle_id # f[k].vehicle_id}

\* The simulation loop alone, at the start of a tick after TicksBefore
\* others, over one of these fleets.
InitTick ==
  /\ env = [requests |-> 0, ticks |-> 1, captures |-> 0] @@ FireFleet
  /\ vehicles \in TickFleets
  /\ simulated_time = TicksBefore * RealTimeStep * SimulationSpeed
  /\ simulation_running = TRUE
  /\ monitoring = TRUE
  /\ lock = "none"
  /\ pc = [t \in Threads |-> CASE t = "sim" -> "s330"
                               [] t = "monitor" -> "c92"
                               [] OTHER -> "idle"]
  /\ sim = NoSimLocals
  /\ api = NoRequest
  /\ cap = [t \in CaptureThreads |->
              [i |-> 0, state |-> <<>>, vehicle_states |-> <<>>, n |-> 0,
               held |-> {}]]
  /\ geo = [t \in RouteThreads |-> NoGeo]
  /\ ctl = [NoCtl EXCEPT !.seen = SeenOf(vehicles)]
  /\ status_history = <<>>
  /\ calc = NoCalc

NextTick == SimNext \/ PatrolNext

SpecTick == InitTick /\ [][NextTick]_vars

\* The for loop of the tick has ended: every vehicle has had its update.
TickDone == pc["sim"] \in {"s353", "s358"} \/ (pc["sim"] = "s330" /\ ctl.ticks > 0)

CompletedTicks == ctl.ticks - (IF pc["sim"] = "s330" THEN 0 ELSE 1)

\* C32: simulated time never decreases; it changes only where a tick ends,
\* after the for loop has gone through the whole fleet, and then by
\* real_time_step * simulation_speed; it is that product times the number of
\* completed ticks.
C32_TimeAdvancesPerTick ==
  [][/\ simulated_time' >= simulated_time
     /\ simulated_time' # simulated_time =>
          /\ pc["sim"] = "s358" /\ pc'["sim"] = "s330"
          /\ simulated_time' = simulated_time + RealTimeStep * env.simulation_speed
          /\ vehicles' = vehicles
     /\ (SimStep /\ pc'["sim"] = "s353") => sim.vi >= Len(vehicles)
     /\ (SimStep /\ pc["sim"] = "s358") => CompletedTicks' = CompletedTicks + 1
     /\ simulated_time' = CompletedTicks' * RealTimeStep * env.simulation_speed]_vars

\* The loop has completed all the ticks of the run at the default speed.
C32_Witness ==
  /\ pc["sim"] = "s330"
  /\ ctl.ticks = MaxPatrolTicks
  /\ simulated_time = MaxPatrolTicks * RealTimeStep * SimulationSpeed
  /\ simulated_time > 0

\* ------------------------------------------------- dispatch and reset
\* The fire fleet with a dispatch, a reset and the ticks for a truck to
\* come home from a call; the police fleet with a reset next to a tick; and
\* the police fleet with a dispatch and the ticks for the car to come home
\* and go on patrol again. The handlers run one at a time between the steps
\* of the simulation loop.
ResetWorkloads ==
  { [requests |-> 1, ticks |-> MaxTicks, captures |-> 0, resets |-> MaxResets,
     calls |-> 0, facilities |-> "fire", simulation_speed |-> SimulationSpeed,
     seed |-> "first", watch |-> FALSE],
    [requests |-> 0, ticks |-> MaxLifeTicks, captures |-> 0, resets |-> MaxResets,
     calls |-> 0, facilities |-> "police", simulation_speed |-> SimulationSpeed,
     seed |-> "last", watch |-> FALSE],
    [requests |-> 1, ticks |-> MaxPatrolTicks, captures |-> 0, resets |-> 0,
     calls |-> 0, facilities |-> "police", simulation_speed |-> SimulationSpeed,
     seed |-> "first", watch |-> FALSE] }

InitReset ==
  /\ env \in ResetWorkloads
  /\ status_history = <<>>
  /\ Started

NextReset ==
  \/ NextPolice
  \/ ResetStop
  \/ Join
  \/ ResetClear
  \/ ResetAppend
  \/ \E ok \in BOOLEAN : ResetSave(ok)
  \/ ResetStart
  \/ ResetRespond

SpecReset == InitReset /\ [][NextReset]_vars

\* What a vehicle is for its whole life.
Identity(v) == <<v.vehicle_id, v.vehicle_type, v.facility_id, v.facility_location,
                 v.max_speed>>

\* The handler of POST /api/reset-simulation is replacing the fleet.
Resetting == pc["api"] \in {"a393", "a394"}

\* C33: no step of a dispatch, of a tick, of an arrival or of a patrol
\* changes the id, the type, the home facility or the maximum speed of a
\* vehicle; the fleet changes its length only while a reset replaces it; and
\* the vehicles of the fleet always have pairwise different ids.
C33_IdentityFixed ==
  [][/\ ~Resetting => /\ Len(vehicles') = Len(vehicles)
                      /\ \A k \in 1..Len(vehicles) :
                           Identity(vehicles'[k]) = Identity(vehicles[k])
     /\ \A j, k \in 1..Len(vehicles') :
          j # k => vehicles'[j].vehicle_id # vehicles'[k].vehicle_id]_vars

\* After a reset a vehicle of the new fleet has answered a dispatch and has
\* arrived at the scene.
C33_Witness ==
  /\ ctl.resets > 0
  /\ pc["api"] = "idle"
  /\ \E k \in 1..Len(vehicles) : vehicles[k].status = "handling"
  /\ Len(vehicles) = Len(initialize_vehicles(Roster(env.facilities), env.seed))

\* --------------------------------------------------- fair scheduling
\* The scheduler lets a thread that can take a step take one: the simulation
\* loop goes on ticking while it lives, and a request handler that has begun
\* runs to its response.
FairSim == WF_vars(ApiIdle /\ (SimNext \/ PatrolNext))

FairApi == WF_vars(ApiSteps)

SpecFleetFair == InitFleet /\ [][NextPolice]_vars /\ FairSim /\ FairApi

\* The run has no tick left: the loop stands at line 330 for good.
OutOfTicks == pc["sim"] = "s330" /\ ctl.ticks = env.ticks /\ pc["api"] = "idle"

Responding(k) == k <= Len(vehicles) /\ vehicles[k].status = "responding"

Handling(k) == k <= Len(vehicles) /\ vehicles[k].status = "handling"

\* Vehicle k is responding and the next ticks move it along its route.
OnItsWay(k) ==
  /\ Responding(k)
  /\ vehicles[k].route_nodes # <<>>
  /\ vehicles[k].route_index < Len(vehicles[k].route_geometry)
  /\ vehicles[k].current_speed > 0

\* The periodic save of the fleet has failed and has ended the loop.
SaveFailed == pc["sim"] = "crashed" /\ sim.error = "OSError"

\* C34: the first vehicle of the fleet, once it is responding, gets to
\* handling, unless the ticks of the run are used up while it is still on its
\* way, with a route ahead and a speed, or a failed write of the fleet file
\* has ended the loop.
C34_RespondingReachesHandling ==
  Responding(1) ~> (Handling(1) \/ (OutOfTicks /\ OnItsWay(1)) \/ SaveFailed)

\* C35: where the tick reads a vehicle as responding or returning (line 338,
\* and again in update_movement) the vehicle has one route_geometry entry per
\* route node and its route_index is an index of route_geometry; the loop
\* never reaches line 96, where arrive_at_destination is called without the
\* simulated time.
C35_RouteCursorInRange ==
  [][/\ (SimStep /\ pc["sim"] \in {"s338", "s92", "s95", "s100"}
               /\ vehicles[sim.vi].status \in {"responding", "returning"})
          => LET v == vehicles[sim.vi] IN
               /\ Len(v.route_geometry) = Len(v.route_nodes)
               /\ 0 <= v.route_index
               /\ v.route_index < Len(v.route_geometry)
     /\ (SimStep /\ pc'["sim"] = "crashed") => sim'.error # "TypeError"]_vars

\* ------------------------------------------------- one police car
\* The life of one police car of the station at A, told by the calls made on
\* it, each call a step: the loop's update of the car in every tick, and a
\* dispatch. The road from B to C is one-way here and ends at C, so that C
\* has no successor; between A and B the network is the one above, and the
\* routes to a call at B and home are the same.
DeadEndEdges == Edges \ {<<"C", "B">>, <<"D", "C">>}

\* generate_patrol_route over the successors given by edges: the routes it
\* can return, one for every sequence of results of random.choice.
RECURSIVE PatrolRoutes(_, _, _)
PatrolRoutes(edges, current_node, left) ==
  LET neighbors == {n \in Nodes : <<current_node, n>> \in edges}
  IN IF left = 0 \/ neighbors = {} THEN {<<>>}
     ELSE UNION {{<<n>> \o r : r \in PatrolRoutes(edges, n, left - 1)} :
                   n \in neighbors}

start_response(v, destination, route_nodes) ==
  [v EXCEPT !.status = "responding", !.destination = destination,
            !.route_nodes = route_nodes, !.route_index = 0,
            !.current_speed = v.max_speed,
            !.route_geometry = Geometry(route_nodes)]

MaxCarTicks == 20

MaxCarCalls == 1

CarRoutes(v) ==
  PatrolRoutes(DeadEndEdges, find_nearest_node(v.facility_location), PatrolMaxNodes)

\* self.patrol_geometry[self.patrol_index] of line 191 raises IndexError.
PatrolIndexError(v) ==
  /\ v.status = "patrolling"
  /\ v.patrol_geometry # <<>>
  /\ v.patrol_index >= Len(v.patrol_geometry)

\* Lines 338-350 on the car, and line 358.
CarTick ==
  /\ calc.pc = "car"
  /\ calc.ticks < MaxCarTicks
  /\ LET v == calc.car
         now == calc.ticks * RealTimeStep * SimulationSpeed
     IN IF PatrolIndexError(v)
        THEN calc' = [calc EXCEPT !.pc = "crashed", !.error = "IndexError"]
        ELSE IF raised(v, now) # ""
        THEN calc' = [calc EXCEPT !.pc = "crashed", !.error = raised(v, now)]
        ELSE IF v.status = "idle"
        THEN \E r \in CarRoutes(v) :
               calc' = [calc EXCEPT !.car = start_patrol(v, r), !.ticks = @ + 1]
        ELSE \E w \in updated(v, RealTimeStep * SimulationSpeed, now, "first") :
               calc' = [calc EXCEPT !.car = w, !.ticks = @ + 1]
  /\ ServerUnchanged

\* POST /api/dispatch-vehicle with the car as the closest candidate.
CarDispatch(dest) ==
  /\ calc.pc = "car"
  /\ calc.calls < MaxCarCalls
  /\ calc.car.status \notin Busy
  /\ \E route \in shortest_path(find_nearest_node(calc.car.current_location),
                                find_nearest_node(dest)) :
       calc' = [calc EXCEPT !.car = start_response(calc.car, dest, route),
                            !.calls = @ + 1]
  /\ ServerUnchanged

InitCar ==
  /\ env = [requests |-> 0, ticks |-> 0, captures |-> 0]
             @@ [FireFleet EXCEPT !.facilities = "police"]
  /\ status_history = <<>>
  /\ Constructed
  /\ \E r \in CarRoutes(vehicles[1]) :
       calc = [pc |-> "car", ticks |-> 0, calls |-> 0, error |-> "",
               car |-> start_patrol(NewPoliceCar(1, 0, PoliceFacilities[1].location), r)]

NextCar == CarTick \/ CarDispatch(NodePos["B"])

SpecCar == InitCar /\ [][NextCar]_vars

\* C36: a police car that is patrolling a non-empty patrol route has a
\* patrol_index that is an index of patrol_geometry.
C36_PatrolIndexInRange ==
  (calc.pc \in {"car", "crashed"} /\ calc.car.status = "patrolling"
     /\ calc.car.patrol_geometry # <<>>)
    => /\ 0 <= calc.car.patrol_index
       /\ calc.car.patrol_index < Len(calc.car.patrol_geometry)

\* The running flag of a scheduler.
Running(t) == IF t = "sim" THEN simulation_running ELSE monitoring

\* The loop threads of scheduler t that are alive and find the flag set at
\* their next test: the thread that pc describes, and the thread that a start
\* has added while the described one, asked to stop, was still alive.
LoopThreads(t) ==
  IF Ended(t) \/ ~Running(t) THEN 0
  ELSE IF ctl.stopped[t] THEN 2
  ELSE 1

\* C37: the simulation loop and the monitoring loop each have at most one
\* thread that is alive and goes on ticking.
C37_OneLoopPerScheduler == \A t \in {"sim", "monitor"} : LoopThreads(t) <= 1

\* The fleet of the station beside D, and the police fleet, under the fair
\* scheduler.
StrandedWorkloads == (OneWayWorkloads \ Workloads) \cup PoliceWorkloads

InitStranded ==
  /\ env \in StrandedWorkloads
  /\ status_history = <<>>
  /\ Started

\* A call to a place at C reaches the truck of the station beside D.
NextStranded ==
  \/ NextPolice
  \/ \E d \in {p \in Destinations : find_nearest_node(p) = "C"} : Request("fire_truck", d)

SpecStrandedFair == InitStranded /\ [][NextStranded]_vars /\ FairSim /\ FairApi

Returning(k) == k <= Len(vehicles) /\ vehicles[k].status = "returning"

\* Vehicle k is returning and the next ticks move it along its route.
OnItsWayHome(k) ==
  /\ Returning(k)
  /\ vehicles[k].route_nodes # <<>>
  /\ vehicles[k].route_index < Len(vehicles[k].route_geometry)
  /\ vehicles[k].current_speed > 0

\* C38: the first vehicle of the fleet, once it is handling, gets to
\* returning, and once it is returning it gets to idle at its home facility
\* or is dispatched again, unless the ticks of the run are used up first or a
\* failed write of the fleet file has ended the loop.
C38_HandlingReachesHome ==
  /\ Handling(1) ~> (Returning(1) \/ (OutOfTicks /\ Handling(1)) \/ SaveFailed)
  /\ Returning(1) ~> (\/ AtHomeIdle(vehicles[1])
                      \/ Responding(1)
                      \/ OutOfTicks /\ OnItsWayHome(1)
                      \/ SaveFailed)

\* ------------------------------------------------- captures and their lock
\* The monitor loop and the dispatches of a run take their snapshots while
\* the simulation loop is between ticks.
CaptureWorkloads ==
  {[requests |-> MaxRequests, ticks |-> 0, captures |-> MaxMonitorCaptures] @@ FireFleet}

InitCapture ==
  /\ env \in CaptureWorkloads
  /\ status_history = <<>>
  /\ Started

NextCapture == ApiNext \/ MonitorNext

\* Both threads keep running; the monitor loop sleeps for the interval after
\* every capture (vehicle_controller.py 97), so a thread that is blocked on
\* the lock is not passed over for ever by the loop's next capture.
FairCapture ==
  /\ WF_vars(MonitorNext)
  /\ WF_vars(ApiSteps)
  /\ \A t \in CaptureThreads : SF_vars(CaptureAcquire(t))

SpecCaptureFair == InitCapture /\ [][NextCapture]_vars /\ FairCapture

\* Thread t is inside the with-block of _capture_status.
InCapture(t) == pc[t] \in {"s50", "s52", "s53", "s55", "s57", "c115", "c122"}

WaitsForLock(t) == pc[t] = "c101"

\* C39: the lock is held exactly by the thread that is inside a capture, so
\* no two threads are inside one at a time and the lock is free once a
\* capture has ended, with the file written or with a failed write; and a
\* thread that waits for the lock gets it.
C39_CapturesExcludeAndProceed ==
  /\ [](\A t \in CaptureThreads : InCapture(t) <=> lock = t)
  /\ \A t \in CaptureThreads : WaitsForLock(t) ~> (lock = t)

\* The monitor loop has ended with a failed write and a dispatch that came
\* after it holds the lock.
C39_Witness ==
  /\ pc["monitor"] = "crashed"
  /\ lock = "api"
  /\ Len(status_history) >= 1

====
